---- MODULE Spec2Model ----
(***************************************************************************)
(* A model of the query pipeline of the store: the SQL query builder       *)
(* (sql/src/lib.rs), the translator (query-translator/src/translate.rs),   *)
(* the algebrizer's limit handling (query-algebrizer/src/lib.rs), keyword  *)
(* reversal (edn/src/symbols.rs), pattern and find-query parsing           *)
(* (query-parser/src/parse.rs), argument resolution                        *)
(* (query-algebrizer/src/clauses/resolve.rs), RelResult                    *)
(* (query-projector/src/relresult.rs), the attribute cache (src/cache.rs), *)
(* excision (db/src/excision.rs), ValueTypeSet                             *)
(* (query-algebrizer/src/types.rs) and the command line's Repl             *)
(* (tools/cli/src/mentat_cli/repl.rs).                                     *)
(*                                                                         *)
(* Text is modelled as a sequence of one-character strings, so that        *)
(* formatting, prefix tests and the byte-wise ordering of Rust's String    *)
(* are computed and not assumed.                                           *)
(***************************************************************************)
EXTENDS Integers, Sequences, FiniteSets, TLC

VARIABLES
    builder,    \* the SQLiteQueryBuilder under construction
    log,        \* the calls made on the builder, with what each emitted / returned
    query,      \* the SQLQuery returned by finish, or None
    aq,         \* the AlgebraicQuery returned by algebrize
    applied,    \* the limits passed to apply_limit so far
    select,     \* the SelectQuery of query_to_select, or None
    exists,     \* the SelectQuery of cc_to_exists, or None
    trace,      \* a NamespacedKeyword followed by its successive to_reversed()
    input,      \* the vector handed to Where::pattern
    parsed,     \* the result of Where::pattern on input, or None
    find,       \* a find query being parsed: its parts and what each parsed to
    resolve,    \* a ConjoiningClauses and the last argument resolved against it
    rel,        \* a RelResult and the last rows read from it
    cache,      \* the AttributeCacher and what the last call on it returned
    db,         \* the datoms and excision tables of the store
    type_set,   \* a ValueTypeSet built by unions and intersections
    repl        \* the Repl: its path and the store it has open

builder_vars == <<builder, log, query>>

query_vars == <<aq, applied, select, exists>>

keyword_vars == <<trace>>

pattern_vars == <<input, parsed>>

\* The components modelled after the pattern parser.
\* The components modelled after the attribute cache.
more_vars == <<db, type_set, repl>>

ext_vars == <<find, resolve, rel, cache, more_vars>>

vars == <<builder_vars, query_vars, keyword_vars, pattern_vars, ext_vars>>

None == [none |-> TRUE]

Some(x) == [some |-> x]

(***************************************************************************)
(* Text helpers.                                                           *)
(***************************************************************************)

\* The backtick character (the string syntax of TLA+ has no backtick).
Backtick == "backtick"

\* Code point of the characters the model uses (ASCII).
Code(c) ==
    CASE c = "$" -> 36
      [] c = "-" -> 45
      [] c = "." -> 46
      [] c = "/" -> 47
      [] c = "0" -> 48
      [] c = "1" -> 49
      [] c = "2" -> 50
      [] c = "3" -> 51
      [] c = "4" -> 52
      [] c = "5" -> 53
      [] c = "6" -> 54
      [] c = "7" -> 55
      [] c = "8" -> 56
      [] c = "9" -> 57
      [] c = ":" -> 58
      [] c = "_" -> 95
      [] c = Backtick -> 96
      [] c = "a" -> 97
      [] c = "b" -> 98
      [] c = "f" -> 102
      [] c = "i" -> 105
      [] c = "v" -> 118
      [] c = "x" -> 120
      [] c = " " -> 32
      [] c = "=" -> 61

DigitChars == <<"0", "1", "2", "3", "4", "5", "6", "7", "8", "9">>

\* char::is_numeric, on the characters of the model.
is_numeric(c) == Code(c) >= 48 /\ Code(c) <= 57

\* char::is_alphanumeric, on the characters of the model.
is_alphanumeric(c) == is_numeric(c) \/ (Code(c) >= 97 /\ Code(c) <= 122)

\* str::starts_with.
starts_with(s, p) == Len(s) >= Len(p) /\ SubSeq(s, 1, Len(p)) = p

\* Iterator::skip(n) on the characters of s.
skip(s, n) == IF n >= Len(s) THEN <<>> ELSE SubSeq(s, n + 1, Len(s))

RECURSIVE Digits(_)
\* Decimal rendering of a natural number.
Digits(n) == IF n < 10 THEN <<DigitChars[n + 1]>>
             ELSE Digits(n \div 10) \o <<DigitChars[(n % 10) + 1]>>

\* i64::to_string.
IntToString(n) == IF n < 0 THEN <<"-">> \o Digits(-n) ELSE Digits(n)

RECURSIVE StrLess(_, _)
\* Ord for String: byte-wise lexicographic order, a proper prefix first.
StrLess(a, b) ==
    IF b = <<>> THEN FALSE
    ELSE IF a = <<>> THEN TRUE
    ELSE IF Code(Head(a)) # Code(Head(b)) THEN Code(Head(a)) < Code(Head(b))
    ELSE StrLess(Tail(a), Tail(b))

RECURSIVE replace_backtick(_)
\* identifier.replace(backtick, two backticks)
replace_backtick(s) ==
    IF s = <<>> THEN <<>>
    ELSE (IF Head(s) = Backtick THEN <<Backtick, Backtick>> ELSE <<Head(s)>>)
         \o replace_backtick(Tail(s))

\* Display for NamespacedKeyword: ":ns/name".
KeywordToString(k) == <<":">> \o k.namespace \o <<"/">> \o k.name

\* A TypedValue: its variant and payload.  n is the integer payload (Ref, Long,
\* Instant in microseconds; Boolean as 1/0), s the text payload (String, the
\* decimal text of a Double, the hex digits of a Uuid, the name of a Keyword)
\* and ns the namespace of a Keyword.
TypedValue(type, n, s, ns) == [type |-> type, n |-> n, s |-> s, ns |-> ns]

TvString(s) == TypedValue("String", 0, s, <<>>)

TvUuid(s) == TypedValue("Uuid", 0, s, <<>>)

TvKeyword(k) == TypedValue("Keyword", 0, k.name, k.namespace)

TvLong(n) == TypedValue("Long", n, <<>>, <<>>)

TvRef(n) == TypedValue("Ref", n, <<>>, <<>>)

TvBoolean(n) == TypedValue("Boolean", n, <<>>, <<>>)

TvDouble(s) == TypedValue("Double", 0, s, <<>>)

TvInstant(n) == TypedValue("Instant", n, <<>>, <<>>)

(***************************************************************************)
(* SQLiteQueryBuilder.                                                     *)
(***************************************************************************)

\* The prefix SQLiteQueryBuilder::new passes to with_prefix.
DefaultPrefix == <<"$", "v">>

\* SQLiteQueryBuilder::with_prefix.
with_prefix(prefix) ==
    [sql         |-> <<>>,
     arg_prefix  |-> prefix,
     arg_counter |-> 0,
     uuid_args   |-> <<>>,
     string_args |-> <<>>,
     args        |-> <<>>]

\* SQLiteQueryBuilder::new.
new == with_prefix(DefaultPrefix)

\* The HashMaps uuid_args and string_args are kept as sequences of
\* <<value, name>> entries with pairwise distinct values.
MapHas(m, k) == \E i \in DOMAIN m : m[i][1] = k

MapGet(m, k) == m[CHOOSE i \in DOMAIN m : m[i][1] = k][2]

MapInsert(m, k, v) ==
    IF MapHas(m, k)
    THEN [i \in DOMAIN m |-> IF m[i][1] = k THEN <<k, v>> ELSE m[i]]
    ELSE Append(m, <<k, v>>)

\* The name next_argument_name returns.
ArgumentName(b) == b.arg_prefix \o Digits(b.arg_counter)

\* next_argument_name that leaves the counter where it is.
next_argument_name_stuck(b) == b

\* next_argument_name: the builder after the call.
next_argument_name(b) == [b EXCEPT !.arg_counter = @ + 1]

push_sql(b, sql) == [b EXCEPT !.sql = @ \o sql]

push_named_arg(b, arg) == push_sql(b, arg)

push_static_arg(b, val) ==
    LET arg == ArgumentName(b)
        b1  == next_argument_name(b)
        b2  == push_named_arg(b1, arg)
    IN  [b2 EXCEPT !.args = Append(@, <<arg, val>>)]

\* push_identifier that pushes the identifier as it is.
push_identifier_raw(b, identifier) ==
    push_sql(push_sql(push_sql(b, <<Backtick>>), identifier), <<Backtick>>)

\* push_identifier: always Ok(()), so only the builder is modelled.
push_identifier(b, identifier) ==
    push_sql(push_sql(push_sql(b, <<Backtick>>), replace_backtick(identifier)), <<Backtick>>)

Text(s) == [kind |-> "Text", v |-> s]

Blob(bytes) == [kind |-> "Blob", v |-> bytes]

\* push_typed_value without the lookup in string_args and uuid_args.
push_typed_value_no_lookup(b, value) ==
    CASE value.type \in {"Ref", "Long", "Instant"} -> push_sql(b, IntToString(value.n))
      [] value.type = "Boolean" -> push_sql(b, IF value.n = 1 THEN <<"1">> ELSE <<"0">>)
      [] value.type = "Double"  -> push_sql(b, value.s)
      [] value.type = "Uuid"    ->
            LET arg == ArgumentName(b)
                b2  == push_named_arg(next_argument_name(b), arg)
            IN  [b2 EXCEPT !.uuid_args = MapInsert(@, value.s, arg)]
      [] value.type = "String"  ->
            LET arg == ArgumentName(b)
                b2  == push_named_arg(next_argument_name(b), arg)
            IN  [b2 EXCEPT !.string_args = MapInsert(@, value.s, arg)]
      [] value.type = "Keyword" ->
            push_static_arg(b, Text(KeywordToString([namespace |-> value.ns, name |-> value.s])))

push_typed_value(b, value) ==
    CASE value.type = "Ref"     -> push_sql(b, IntToString(value.n))
      [] value.type = "Boolean" -> push_sql(b, IF value.n = 1 THEN <<"1">> ELSE <<"0">>)
      [] value.type = "Long"    -> push_sql(b, IntToString(value.n))
      [] value.type = "Double"  -> push_sql(b, value.s)
      [] value.type = "Instant" -> push_sql(b, IntToString(value.n))
      [] value.type = "Uuid"    ->
            IF MapHas(b.uuid_args, value.s)
            THEN push_named_arg(b, MapGet(b.uuid_args, value.s))
            ELSE LET arg == ArgumentName(b)
                     b1  == next_argument_name(b)
                     b2  == push_named_arg(b1, arg)
                 IN  [b2 EXCEPT !.uuid_args = MapInsert(@, value.s, arg)]
      [] value.type = "String"  ->
            IF MapHas(b.string_args, value.s)
            THEN push_named_arg(b, MapGet(b.string_args, value.s))
            ELSE LET arg == ArgumentName(b)
                     b1  == next_argument_name(b)
                     b2  == push_named_arg(b1, arg)
                 IN  [b2 EXCEPT !.string_args = MapInsert(@, value.s, arg)]
      [] value.type = "Keyword" ->
            push_static_arg(b, Text(KeywordToString([namespace |-> value.ns, name |-> value.s])))

\* The result of push_bind_param(name): Ok, or the error it bails with.
push_bind_param_result(b, name) ==
    IF ~ \A i \in DOMAIN name : is_alphanumeric(name[i]) \/ name[i] = "_"
    THEN "InvalidParameterName"
    ELSE IF /\ starts_with(name, b.arg_prefix)
            /\ \A i \in DOMAIN skip(name, Len(b.arg_prefix)) :
                   is_numeric(skip(name, Len(b.arg_prefix))[i])
    THEN "BindParamCouldBeGenerated"
    ELSE "Ok"

\* push_bind_param: the builder after the call.
push_bind_param(b, name) ==
    IF push_bind_param_result(b, name) = "Ok"
    THEN push_sql(push_sql(b, <<"$">>), name)
    ELSE b

RECURSIVE InsertSorted(_, _)
\* Insert entry e after every entry of the sorted sequence s that is not greater.
InsertSorted(s, e) ==
    IF s = <<>> THEN <<e>>
    ELSE IF StrLess(e[1], Head(s)[1]) THEN <<e>> \o s
    ELSE <<Head(s)>> \o InsertSorted(Tail(s), e)

RECURSIVE SortFrom(_, _, _)
SortFrom(s, i, acc) ==
    IF i > Len(s) THEN acc ELSE SortFrom(s, i + 1, InsertSorted(acc, s[i]))

\* args.sort_by(|&(ref k1, _), &(ref k2, _)| k1.cmp(k2)): a stable sort by name.
sort_by_name(s) == SortFrom(s, 1, <<>>)

\* The orders in which a HashMap of n entries can be iterated.
Orders(n) == {p \in [1..n -> 1..n] : \A i, j \in 1..n : p[i] = p[j] => i = j}

\* finish without the final sort.
finish_unsorted(b, so, uo) ==
    LET string_args == [i \in DOMAIN b.string_args |->
                           <<b.string_args[so[i]][2], Text(b.string_args[so[i]][1])>>]
        uuid_args   == [i \in DOMAIN b.uuid_args |->
                           <<b.uuid_args[uo[i]][2], Blob(b.uuid_args[uo[i]][1])>>]
    IN  [sql |-> b.sql, args |-> (b.args \o string_args) \o uuid_args]

\* finish, for one iteration order of each of the two HashMaps.
finish(b, so, uo) ==
    LET string_args == [i \in DOMAIN b.string_args |->
                           <<b.string_args[so[i]][2], Text(b.string_args[so[i]][1])>>]
        uuid_args   == [i \in DOMAIN b.uuid_args |->
                           <<b.uuid_args[uo[i]][2], Blob(b.uuid_args[uo[i]][1])>>]
        args        == (b.args \o string_args) \o uuid_args
    IN  [sql |-> b.sql, args |-> sort_by_name(args)]

(***************************************************************************)
(* The calls a client makes on one builder.                                *)
(***************************************************************************)

\* Bound on the number of calls made on one builder.
MaxCalls == 3

\* Bound on the number of values pushed in the long runs (SpecLong).
MaxLong == 11

Prefixes == {DefaultPrefix, <<"v">>}

Keywords == {[namespace |-> <<"f">>, name |-> <<"b">>]}

TypedValues ==
    {TvString(<<"a">>), TvString(<<"b">>), TvUuid(<<"a">>), TvUuid(<<"b">>),
     TvRef(10), TvBoolean(1), TvLong(-1), TvDouble(<<"9", ".", "5">>), TvInstant(7)}
    \cup {TvKeyword(k) : k \in Keywords}

LongValues == {TvString(<<"a">>)} \cup {TvKeyword(k) : k \in Keywords}

SqlTexts == {<<" ", "=", " ">>}

Identifiers == {<<"f">>, <<"a", Backtick, "b">>, <<Backtick>>, <<"b", Backtick, Backtick>>}

BindNames == {<<"v", "0">>, <<"v">>, <<"$", "v", "0">>, <<"i">>, <<"x", "_", "1">>,
              <<"v", "1", "0">>, <<"v", "0", "a">>, <<"a", "-", "b">>}

StaticArgs == {Text(<<"a">>)}

\* The text a call appended to the SQL.
Emitted(b, b2) == skip(b2.sql, Len(b.sql))

NoValue == TypedValue("None", 0, <<>>, <<>>)

\* The record of one call: the operation, its typed-value or text argument,
\* the text it appended to the SQL and its result.
Called(op, value, name, b2, result) ==
    Append(log, [op |-> op, value |-> value, name |-> name,
                 text |-> Emitted(builder, b2), result |-> result])

PushSql(sql) ==
    /\ query = None
    /\ builder' = push_sql(builder, sql)
    /\ log' = Called("push_sql", NoValue, sql, builder', "Ok")
    /\ UNCHANGED <<query, query_vars, keyword_vars, pattern_vars, ext_vars>>

PushIdentifier(identifier) ==
    /\ query = None
    /\ builder' = push_identifier(builder, identifier)
    /\ log' = Called("push_identifier", NoValue, identifier, builder', "Ok")
    /\ UNCHANGED <<query, query_vars, keyword_vars, pattern_vars, ext_vars>>

PushTypedValue(value) ==
    /\ query = None
    /\ builder' = push_typed_value(builder, value)
    /\ log' = Called("push_typed_value", value, <<>>, builder', "Ok")
    /\ UNCHANGED <<query, query_vars, keyword_vars, pattern_vars, ext_vars>>

PushStaticArg(val) ==
    /\ query = None
    /\ builder' = push_static_arg(builder, val)
    /\ log' = Called("push_static_arg", NoValue, val.v, builder', "Ok")
    /\ UNCHANGED <<query, query_vars, keyword_vars, pattern_vars, ext_vars>>

PushBindParam(name) ==
    /\ query = None
    /\ builder' = push_bind_param(builder, name)
    /\ log' = Called("push_bind_param", NoValue, name, builder',
                     push_bind_param_result(builder, name))
    /\ UNCHANGED <<query, query_vars, keyword_vars, pattern_vars, ext_vars>>

Finish ==
    /\ query = None
    /\ \E so \in Orders(Len(builder.string_args)), uo \in Orders(Len(builder.uuid_args)) :
           query' = Some(finish(builder, so, uo))
    /\ UNCHANGED <<builder, log, query_vars, keyword_vars, pattern_vars, ext_vars>>

\* The variables of the other components while the builder runs.
NoQuery == aq = None /\ applied = <<>> /\ select = None /\ exists = None

NoKeyword == trace = <<>>

NoPattern == input = None /\ parsed = None

NoBuilder == builder = new /\ log = <<>> /\ query = None

NoMore == db = None /\ type_set = None /\ repl = None

NoExt == find = None /\ resolve = None /\ rel = None /\ cache = None /\ NoMore

Init ==
    /\ builder \in {with_prefix(p) : p \in Prefixes}
    /\ log = <<>>
    /\ query = None
    /\ NoQuery /\ NoKeyword /\ NoPattern /\ NoExt

Next ==
    \/ \E sql \in SqlTexts : Len(log) < MaxCalls /\ PushSql(sql)
    \/ \E identifier \in Identifiers : Len(log) < MaxCalls /\ PushIdentifier(identifier)
    \/ \E value \in TypedValues : Len(log) < MaxCalls /\ PushTypedValue(value)
    \/ \E val \in StaticArgs : Len(log) < MaxCalls /\ PushStaticArg(val)
    \/ \E name \in BindNames : Len(log) < MaxCalls /\ PushBindParam(name)
    \/ Finish

Spec == Init /\ [][Next]_vars

\* Long runs on the default builder: enough pushes to generate $v10.
InitLong ==
    /\ builder = new
    /\ log = <<>>
    /\ query = None
    /\ NoQuery /\ NoKeyword /\ NoPattern /\ NoExt

NextLong ==
    \/ \E value \in LongValues : Len(log) < MaxLong /\ PushTypedValue(value)
    \/ Finish

SpecLong == InitLong /\ [][NextLong]_vars

(***************************************************************************)
(* Properties of the builder.                                              *)
(***************************************************************************)

\* The calls that pushed a String or a Uuid value.
InternedPushes ==
    {i \in DOMAIN log : log[i].op = "push_typed_value" /\ log[i].value.type \in {"String", "Uuid"}}

\* The entries of the argument list whose name was emitted for a String or Uuid.
InternedArgs(q) ==
    {i \in DOMAIN q.args : \E j \in InternedPushes : log[j].text = q.args[i][1]}

\* C1: two String values (two Uuid values) pushed on one builder are emitted
\* with the same placeholder name exactly when they are equal, and after
\* finish the number of string/UUID arguments is the number of distinct
\* string/UUID values pushed.
C1_ParameterDedup ==
    /\ \A i, j \in InternedPushes :
           log[i].value.type = log[j].value.type
               => ((log[i].text = log[j].text) <=> (log[i].value = log[j].value))
    /\ query # None =>
           Cardinality(InternedArgs(query.some))
               = Cardinality({log[i].value : i \in InternedPushes})

\* A finished build in which an equal value was pushed twice and so was a different one.
C1_Witness ==
    /\ query # None
    /\ \E i, j, k \in InternedPushes :
           /\ i < j
           /\ log[i].value = log[j].value
           /\ log[k].value.type = log[i].value.type
           /\ log[k].value # log[i].value

\* The placeholder texts next_argument_name can produce: the prefix followed
\* by the decimal digits of the counter.
CouldBeGenerated(b, text) ==
    /\ starts_with(text, b.arg_prefix)
    /\ Len(text) > Len(b.arg_prefix)
    /\ \A i \in DOMAIN skip(text, Len(b.arg_prefix)) : is_numeric(skip(text, Len(b.arg_prefix))[i])

\* C2: push_bind_param(name) never succeeds when the placeholder it would emit,
\* "$" followed by name, is one the builder can generate itself; every such
\* name is rejected with BindParamCouldBeGenerated.
C2_BindParamRejected ==
    \A i \in DOMAIN log :
        (log[i].op = "push_bind_param" /\ CouldBeGenerated(builder, <<"$">> \o log[i].name))
            => log[i].result = "BindParamCouldBeGenerated"

\* Sorted ascending by name, in the order of String.
SortedByName(args) ==
    \A i, j \in DOMAIN args : i < j => ~ StrLess(args[j][1], args[i][1])

\* C3: whatever was pushed, finish returns the argument list sorted ascending
\* by placeholder name, $v0 before $v1 before $v10.
C3_FinishSorted == query # None => SortedByName(query.some.args)

\* A finished build that generated $v10 and whose arguments come from
\* keywords and from a string pushed between them.
C3_Witness ==
    /\ query # None
    /\ \E i, j, k \in DOMAIN query.some.args :
           /\ query.some.args[i][1] = <<"$", "v", "0">>
           /\ query.some.args[j][1] = <<"$", "v", "1">>
           /\ query.some.args[k][1] = <<"$", "v", "1", "0">>
           /\ i < j /\ j < k
    /\ builder.string_args # <<>>
    /\ \E i, j \in DOMAIN builder.args :
           /\ StrLess(builder.args[i][1], builder.string_args[1][2])
           /\ StrLess(builder.string_args[1][2], builder.args[j][1])

(***************************************************************************)
(* The algebrizer's types (query-algebrizer/src/types.rs).                 *)
(***************************************************************************)

\* Column: Fixed(DatomsColumn) or Variable(VariableColumn), with its name.
FixedColumn(name) == [kind |-> "Fixed", name |-> name]

VariableColumn(var) == [kind |-> "Variable", name |-> var]

QualifiedAlias(table, column) == [table |-> table, column |-> column]

for_type_tag(qa) == QualifiedAlias(qa.table, FixedColumn("value_type_tag"))

\* SourceAlias(DatomsTable, TableAlias); index is the i of Computed(i).
SourceAlias(table, index, alias) == [table |-> table, index |-> index, alias |-> alias]

\* QueryValue.
QvColumn(qa) == [kind |-> "Column", qa |-> qa]

QvEntid(entid) == [kind |-> "Entid", n |-> entid]

QvTypedValue(tv) == [kind |-> "TypedValue", tv |-> tv]

QvPrimitiveLong(n) == [kind |-> "PrimitiveLong", n |-> n]

\* ColumnConstraint.
Equals(qa, value) == [kind |-> "Equals", qa |-> qa, value |-> value]

NumericInequality(operator, left, right) ==
    [kind |-> "NumericInequality", operator |-> operator, left |-> left, right |-> right]

HasType(table, value_type) == [kind |-> "HasType", table |-> table, value_type |-> value_type]

\* ColumnConstraintOrAlternation::Alternation: a list of intersections.
Alternation(intersections) == [kind |-> "Alternation", intersections |-> intersections]

\* NumericComparison::to_sql_operator.
to_sql_operator(operator) ==
    CASE operator = "LessThan"            -> "<"
      [] operator = "LessThanOrEquals"    -> "<="
      [] operator = "GreaterThan"         -> ">"
      [] operator = "GreaterThanOrEquals" -> ">="
      [] operator = "NotEquals"           -> "<>"

\* ComputedTable::Union; projection is the BTreeSet in its iteration order.
Union(projection, type_extraction, arms) ==
    [projection |-> projection, type_extraction |-> type_extraction, arms |-> arms]

\* ConjoiningClauses, the fields the translator reads.  column_bindings is a
\* list of <<variable, columns>> entries.
ConjoiningClauses(from, computed_tables, wheres, column_bindings, empty_because) ==
    [from |-> from, computed_tables |-> computed_tables, wheres |-> wheres,
     column_bindings |-> column_bindings, empty_because |-> empty_because]

\* ConjoiningClauses::is_known_empty.
is_known_empty(cc) == cc.empty_because # None

(***************************************************************************)
(* The SQL the translator produces (SelectQuery and its parts).            *)
(***************************************************************************)

CoeColumn(qa) == [kind |-> "Column", qa |-> qa]

CoeEntid(entid) == [kind |-> "Entid", n |-> entid]

CoeInteger(n) == [kind |-> "Integer", n |-> n]

CoeValue(tv) == [kind |-> "Value", tv |-> tv]

Infix(op, left, right) == [kind |-> "Infix", op |-> op, left |-> left, right |-> right]

\* Constraint::equal.
equal(left, right) == Infix("=", left, right)

\* Constraint::not_equal.
not_equal(left, right) == Infix("<>", left, right)

And(constraints) == [kind |-> "And", constraints |-> constraints]

Or(constraints) == [kind |-> "Or", constraints |-> constraints]

ProjectedColumn(expr, name) == [expr |-> expr, name |-> name]

ProjectionOne == [kind |-> "One", columns |-> <<>>]

ProjectionColumns(columns) == [kind |-> "Columns", columns |-> columns]

FromNothing == [kind |-> "Nothing", tables |-> <<>>]

FromTableList(tables) == [kind |-> "TableList", tables |-> tables]

TableOrSubqueryTable(source_alias) == [kind |-> "Table", source_alias |-> source_alias]

TableOrSubqueryUnion(queries, alias) == [kind |-> "Union", queries |-> queries, alias |-> alias]

SelectQuery(distinct, projection, from, constraints, limit) ==
    [distinct |-> distinct, projection |-> projection, from |-> from,
     constraints |-> constraints, limit |-> limit]

\* What a failed expect / unwrap / index leaves instead of a value.
Panic == [panic |-> TRUE]

(***************************************************************************)
(* The translator (query-translator/src/translate.rs).                     *)
(***************************************************************************)

\* The tag of ValueType::Boolean.
BooleanTag == 1

\* ValueType::value_type_tag.
value_type_tag(value_type) ==
    CASE value_type = "Boolean" -> BooleanTag
      [] value_type = "Long"    -> 5
      [] value_type = "Double"  -> 5
      [] value_type = "String"  -> 10
      [] value_type = "Keyword" -> 13

\* ValueType::accommodates_integer.
accommodates_integer(value_type, int) ==
    CASE value_type = "Boolean" -> int = 0 \/ int = 1
      [] OTHER -> FALSE

\* impl ToColumn for QualifiedAlias.
to_column(qa) == CoeColumn(qa)

\* QueryValue into ColumnOrExpression.
QueryValueInto(value) ==
    CASE value.kind = "Column"        -> CoeColumn(value.qa)
      [] value.kind = "Entid"         -> CoeEntid(value.n)
      [] value.kind = "TypedValue"    -> CoeValue(value.tv)
      [] value.kind = "PrimitiveLong" -> CoeValue(TvLong(value.n))

\* impl ToConstraint for ColumnConstraint that guards every non-negative
\* integer instead of asking ValueType::Boolean.
ColumnConstraint_to_constraint_nonneg(c) ==
    CASE c.kind = "Equals" /\ c.value.kind = "PrimitiveLong" ->
            IF c.value.n >= 0
            THEN And(<<equal(to_column(c.qa), CoeValue(TvLong(c.value.n))),
                       not_equal(to_column(for_type_tag(c.qa)),
                                 CoeInteger(value_type_tag("Boolean")))>>)
            ELSE equal(to_column(c.qa), CoeValue(TvLong(c.value.n)))
      [] c.kind = "Equals" /\ c.value.kind # "PrimitiveLong" ->
            equal(to_column(c.qa), QueryValueInto(c.value))
      [] c.kind = "NumericInequality" ->
            Infix(to_sql_operator(c.operator), QueryValueInto(c.left), QueryValueInto(c.right))
      [] c.kind = "HasType" ->
            equal(to_column(QualifiedAlias(c.table, FixedColumn("value_type_tag"))),
                  CoeInteger(value_type_tag(c.value_type)))

\* impl ToConstraint for ColumnConstraint.
ColumnConstraint_to_constraint(c) ==
    CASE c.kind = "Equals" /\ c.value.kind = "Entid" ->
            equal(to_column(c.qa), CoeEntid(c.value.n))
      [] c.kind = "Equals" /\ c.value.kind = "TypedValue" ->
            equal(to_column(c.qa), CoeValue(c.value.tv))
      [] c.kind = "Equals" /\ c.value.kind = "Column" ->
            equal(to_column(c.qa), to_column(c.value.qa))
      [] c.kind = "Equals" /\ c.value.kind = "PrimitiveLong" ->
            LET tag_column   == to_column(for_type_tag(c.qa))
                value_column == to_column(c.qa)
                must_exclude_boolean == accommodates_integer("Boolean", c.value.n)
            IN  IF must_exclude_boolean
                THEN And(<<equal(value_column, CoeValue(TvLong(c.value.n))),
                           not_equal(tag_column, CoeInteger(value_type_tag("Boolean")))>>)
                ELSE equal(value_column, CoeValue(TvLong(c.value.n)))
      [] c.kind = "NumericInequality" ->
            Infix(to_sql_operator(c.operator), QueryValueInto(c.left), QueryValueInto(c.right))
      [] c.kind = "HasType" ->
            equal(to_column(QualifiedAlias(c.table, FixedColumn("value_type_tag"))),
                  CoeInteger(value_type_tag(c.value_type)))

RECURSIVE to_constraint(_)
\* impl ToConstraint for ColumnConstraintOrAlternation, ColumnAlternation and
\* ColumnIntersection.
to_constraint(c) ==
    IF c.kind = "Alternation"
    THEN Or([i \in DOMAIN c.intersections |->
                And([j \in DOMAIN c.intersections[i] |->
                        to_constraint(c.intersections[i][j])])])
    ELSE ColumnConstraint_to_constraint(c)

\* ConsumableVec::with_vec.
with_vec(vec) == [i \in DOMAIN vec |-> Some(vec[i])]

\* ConsumableVec::take_dangerously: the value taken at (0-based) index i, or
\* Panic when the index is out of bounds or the value was already taken.
take_dangerously(inner, i) ==
    IF (i + 1) \in DOMAIN inner /\ inner[i + 1] # None THEN inner[i + 1].some ELSE Panic

\* ConsumableVec::take_dangerously that leaves the value in the vector.
after_take_keep(inner, i) == inner

\* ConsumableVec::take_dangerously: the vector after the call.
after_take(inner, i) ==
    IF (i + 1) \in DOMAIN inner THEN [inner EXCEPT ![i + 1] = None] ELSE inner

RECURSIVE cc_to_select_query(_, _, _, _), table_for_computed(_, _), Tables(_, _, _)

\* The tables of cc.from from position k on, `computed` being what is left of
\* the computed tables.
Tables(from, k, computed) ==
    IF k > Len(from) THEN <<>>
    ELSE IF from[k].table = "Computed"
         THEN <<table_for_computed(take_dangerously(computed, from[k].index), from[k].alias)>>
              \o Tables(from, k + 1, after_take(computed, from[k].index))
         ELSE <<TableOrSubqueryTable(from[k])>> \o Tables(from, k + 1, computed)

\* table_for_computed that projects each arm's bindings in the arm's own order.
table_for_computed_by_bindings(computed, alias) ==
    IF computed = Panic THEN Panic
    ELSE TableOrSubqueryUnion(
             [a \in DOMAIN computed.arms |->
                 LET cc == computed.arms[a]
                 IN  cc_to_select_query(
                         ProjectionColumns(
                             [p \in DOMAIN cc.column_bindings |->
                                 ProjectedColumn(CoeColumn(cc.column_bindings[p][2][1]),
                                                 cc.column_bindings[p][1])]),
                         cc, FALSE, None)],
             alias)

table_for_computed(computed, alias) ==
    IF computed = Panic THEN Panic
    ELSE IF \E a \in DOMAIN computed.arms : \E p \in DOMAIN computed.projection :
                \/ ~ MapHas(computed.arms[a].column_bindings, computed.projection[p])
                \/ MapGet(computed.arms[a].column_bindings, computed.projection[p]) = <<>>
    THEN Panic
    ELSE LET queries ==
                 [a \in DOMAIN computed.arms |->
                     LET cc == computed.arms[a]
                         var_columns ==
                             [p \in DOMAIN computed.projection |->
                                 ProjectedColumn(
                                     CoeColumn(MapGet(cc.column_bindings, computed.projection[p])[1]),
                                     computed.projection[p])]
                     IN  cc_to_select_query(ProjectionColumns(var_columns), cc, FALSE, None)]
         IN  IF \E a \in DOMAIN queries : queries[a] = Panic
             THEN Panic
             ELSE TableOrSubqueryUnion(queries, alias)

\* cc_to_select_query without the known-empty test on the limit.
cc_to_select_query_keep_limit(projection, cc, distinct, limit) ==
    LET tables == Tables(cc.from, 1, with_vec(cc.computed_tables))
        from   == IF cc.from = <<>> THEN FromNothing ELSE FromTableList(tables)
    IN  IF \E t \in DOMAIN tables : tables[t] = Panic
        THEN Panic
        ELSE SelectQuery(distinct, projection, from,
                         [i \in DOMAIN cc.wheres |-> to_constraint(cc.wheres[i])],
                         limit)

cc_to_select_query(projection, cc, distinct, limit) ==
    LET tables == Tables(cc.from, 1, with_vec(cc.computed_tables))
        from   == IF cc.from = <<>> THEN FromNothing ELSE FromTableList(tables)
        lim    == IF cc.empty_because # None THEN Some(0) ELSE limit
    IN  IF \E t \in DOMAIN tables : tables[t] = Panic
        THEN Panic
        ELSE SelectQuery(distinct, projection, from,
                         [i \in DOMAIN cc.wheres |-> to_constraint(cc.wheres[i])],
                         lim)

\* cc_to_exists without the known-empty short cut.
cc_to_exists_no_shortcut(cc) == cc_to_select_query(ProjectionOne, cc, FALSE, Some(1))

cc_to_exists(cc) ==
    IF is_known_empty(cc)
    THEN SelectQuery(FALSE, ProjectionOne, FromNothing, <<>>, Some(0))
    ELSE cc_to_select_query(ProjectionOne, cc, FALSE, Some(1))

(***************************************************************************)
(* AlgebraicQuery (query-algebrizer/src/lib.rs) and its projection.        *)
(***************************************************************************)

FindSpec(kind, elements) == [kind |-> kind, elements |-> elements]

\* FindSpec::is_unit_limited.
is_unit_limited(find_spec) == find_spec.kind \in {"FindScalar", "FindTuple"}

\* algebrize, from the find spec and the clauses already applied to cc.
algebrize(find_spec, cc) ==
    [find_spec      |-> find_spec,
     has_aggregates |-> FALSE,
     limit          |-> IF is_unit_limited(find_spec) THEN Some(1) ELSE None,
     cc             |-> cc]

\* AlgebraicQuery::apply_limit that takes every limit it is given.
apply_limit_replace(q, limit) ==
    IF limit = None THEN q ELSE [q EXCEPT !.limit = limit]

\* AlgebraicQuery::apply_limit.
apply_limit(q, limit) ==
    IF q.limit = None
    THEN [q EXCEPT !.limit = limit]
    ELSE IF limit = None
         THEN q
         ELSE IF limit.some < q.limit.some
              THEN [q EXCEPT !.limit = limit]
              ELSE q

\* Whether the projector has a column for every element of the find spec.
Projectable(q) ==
    \A e \in DOMAIN q.find_spec.elements :
        /\ MapHas(q.cc.column_bindings, q.find_spec.elements[e])
        /\ MapGet(q.cc.column_bindings, q.find_spec.elements[e]) # <<>>

\* query_projection: the SQL projection and whether it is DISTINCT.
query_projection(q) ==
    IF is_known_empty(q.cc)
    THEN [sql_projection |-> ProjectionOne, distinct |-> FALSE]
    ELSE [sql_projection |->
              ProjectionColumns(
                  [e \in DOMAIN q.find_spec.elements |->
                      ProjectedColumn(
                          CoeColumn(MapGet(q.cc.column_bindings, q.find_spec.elements[e])[1]),
                          q.find_spec.elements[e])]),
          distinct |->
              IF q.find_spec.kind \in {"FindRel", "FindColl"}
              THEN q.limit # Some(1)
              ELSE FALSE]

\* query_to_select that always asks for DISTINCT.
query_to_select_distinct(q) ==
    cc_to_select_query(query_projection(q).sql_projection, q.cc, TRUE, q.limit)

\* query_to_select: the query of the ProjectedSelect.
query_to_select(q) ==
    cc_to_select_query(query_projection(q).sql_projection, q.cc,
                       query_projection(q).distinct, q.limit)

(***************************************************************************)
(* Translating an algebrized query.                                        *)
(***************************************************************************)

\* Bound on the number of apply_limit calls on one query.
MaxApply == 2

Limits == {None, Some(0), Some(1), Some(2), Some(5)}

PrimitiveLongs == {-1, 0, 1, 2}

FindSpecs == {FindSpec("FindScalar", <<"?x">>), FindSpec("FindColl", <<"?x">>),
              FindSpec("FindTuple", <<"?x">>), FindSpec("FindRel", <<"?x">>)}

EmptyBecauses == {None, Some("UnresolvedIdent")}

Datoms00 == SourceAlias("Datoms", 0, "datoms00")

Datoms01 == SourceAlias("Datoms", 0, "datoms01")

Col(table, name) == QualifiedAlias(table, FixedColumn(name))

BindX(table) == <<"?x", <<Col(table, "e")>>>>

\* The where lists of the queries translated.
Wheres ==
    {<<Equals(Col("datoms00", "a"), QvEntid(99)),
       Equals(Col("datoms00", "v"), QvTypedValue(TvString(<<"a">>)))>>,
     <<Alternation(<< <<Equals(Col("datoms00", "a"), QvEntid(97)),
                        Equals(Col("datoms00", "v"), QvPrimitiveLong(1))>>,
                      <<Equals(Col("datoms00", "a"), QvEntid(98))>> >>),
       NumericInequality("NotEquals", QvColumn(Col("datoms00", "v")), QvPrimitiveLong(12)),
       HasType("datoms00", "Keyword"),
       Equals(Col("datoms00", "e"), QvColumn(Col("datoms00", "tx")))>>}
    \cup {<<Equals(Col("datoms00", "v"), QvPrimitiveLong(n))>> : n \in PrimitiveLongs}

\* The arms of the union: one pattern each, the second possibly known-empty.
Arms(eb) ==
    <<ConjoiningClauses(<<Datoms00>>, <<>>,
                        <<Equals(Col("datoms00", "a"), QvEntid(97))>>, <<BindX("datoms00")>>, None),
      ConjoiningClauses(<<Datoms01>>, <<>>,
                        <<Equals(Col("datoms01", "v"), QvPrimitiveLong(0))>>, <<BindX("datoms01")>>, eb)>>

\* The arms of a union that projects two variables, each arm binding them to
\* columns of its own, the first to more than one column.
ArmsXY(eb) ==
    <<ConjoiningClauses(<<Datoms00>>, <<>>,
                        <<Equals(Col("datoms00", "a"), QvEntid(97))>>,
                        <<<<"?y", <<Col("datoms00", "v")>>>>,
                          <<"?x", <<Col("datoms00", "e"), Col("datoms00", "tx")>>>>>>, None),
      ConjoiningClauses(<<Datoms01>>, <<>>,
                        <<Equals(Col("datoms01", "a"), QvEntid(98))>>,
                        <<<<"?x", <<Col("datoms01", "v"), Col("datoms01", "e")>>>>,
                          <<"?y", <<Col("datoms01", "e")>>>>>>, eb)>>

\* The conjoining clauses algebrization hands to the translator: no table at
\* all, one pattern, a union joined with a pattern, and two unions around a
\* pattern.  Each Computed(i) of a from list is the index at which its union
\* was stored in computed_tables.
CCs ==
    {ConjoiningClauses(<<>>, <<>>, <<>>, <<>>, eb) : eb \in EmptyBecauses}
    \cup {ConjoiningClauses(<<Datoms00>>, <<>>, w, <<BindX("datoms00")>>, eb) :
              w \in Wheres, eb \in EmptyBecauses}
    \cup {ConjoiningClauses(
              <<SourceAlias("Computed", 0, "c00"), SourceAlias("Datoms", 0, "datoms02")>>,
              <<Union(<<"?x">>, <<>>, Arms(ebArm))>>,
              <<Equals(QualifiedAlias("c00", VariableColumn("?x")),
                       QvColumn(Col("datoms02", "e")))>>,
              <<BindX("datoms02")>>, eb) :
              ebArm \in EmptyBecauses, eb \in EmptyBecauses}
    \cup {ConjoiningClauses(
              <<SourceAlias("Datoms", 0, "datoms02"), SourceAlias("Computed", 0, "c00")>>,
              <<Union(<<"?x", "?y">>, <<>>, ArmsXY(ebArm))>>,
              <<Equals(QualifiedAlias("c00", VariableColumn("?x")),
                       QvColumn(Col("datoms02", "e")))>>,
              <<BindX("datoms02")>>, None) :
              ebArm \in EmptyBecauses}
    \cup {ConjoiningClauses(
              <<SourceAlias("Computed", 0, "c00"), SourceAlias("Datoms", 0, "datoms02"),
                SourceAlias("Computed", 1, "c01")>>,
              <<Union(<<"?x">>, <<>>, Arms(None)), Union(<<"?x", "?y">>, <<>>, ArmsXY(None))>>,
              <<Equals(QualifiedAlias("c00", VariableColumn("?x")),
                       QvColumn(Col("datoms02", "e")))>>,
              <<BindX("datoms02")>>, None)}

ApplyLimit(limit) ==
    /\ select = None /\ exists = None
    /\ aq' = apply_limit(aq, limit)
    /\ applied' = Append(applied, limit)
    /\ UNCHANGED <<select, exists, builder_vars, keyword_vars, pattern_vars, ext_vars>>

QueryToSelect ==
    /\ select = None /\ exists = None
    /\ is_known_empty(aq.cc) \/ Projectable(aq)
    /\ select' = query_to_select(aq)
    /\ UNCHANGED <<aq, applied, exists, builder_vars, keyword_vars, pattern_vars, ext_vars>>

CcToExists ==
    /\ select = None /\ exists = None
    /\ exists' = cc_to_exists(aq.cc)
    /\ UNCHANGED <<aq, applied, select, builder_vars, keyword_vars, pattern_vars, ext_vars>>

InitQuery ==
    /\ aq \in {algebrize(fs, cc) : fs \in FindSpecs, cc \in CCs}
    /\ applied = <<>>
    /\ select = None
    /\ exists = None
    /\ NoBuilder /\ NoKeyword /\ NoPattern /\ NoExt

NextQuery ==
    \/ \E limit \in Limits : Len(applied) < MaxApply /\ ApplyLimit(limit)
    \/ QueryToSelect
    \/ CcToExists

SpecQuery == InitQuery /\ [][NextQuery]_vars

(***************************************************************************)
(* Properties of the translation.                                          *)
(***************************************************************************)

Translated(q) == q # None /\ q # Panic

IsPrimitiveLongEquals(w) ==
    w.kind = "Equals" /\ w.value.kind = "PrimitiveLong"

\* column = n
PlainEquality(w) == equal(CoeColumn(w.qa), CoeValue(TvLong(w.value.n)))

\* column = n AND <same table alias>.value_type_tag <> boolean tag
GuardedEquality(w) ==
    And(<<PlainEquality(w),
          not_equal(CoeColumn(QualifiedAlias(w.qa.table, FixedColumn("value_type_tag"))),
                    CoeInteger(BooleanTag))>>)

\* C4: Equals(column, PrimitiveLong(n)) becomes column = n AND the same
\* alias's value_type_tag <> boolean tag exactly when n is 0 or 1, and the
\* plain equality column = n for every other n, negatives included.
C4_BooleanGuard ==
    Translated(select) =>
        \A i \in DOMAIN aq.cc.wheres :
            IsPrimitiveLongEquals(aq.cc.wheres[i]) =>
                select.constraints[i] =
                    IF aq.cc.wheres[i].value.n \in {0, 1}
                    THEN GuardedEquality(aq.cc.wheres[i])
                    ELSE PlainEquality(aq.cc.wheres[i])

\* A translated query comparing a column with the bare long 1, guarded.
C4_Witness ==
    /\ Translated(select)
    /\ \E i \in DOMAIN aq.cc.wheres :
           /\ IsPrimitiveLongEquals(aq.cc.wheres[i])
           /\ aq.cc.wheres[i].value.n = 1
           /\ select.constraints[i].kind = "And"

\* The subqueries of the unions in a query's FROM, each with the arm it
\* was made from.
ArmQueries(q, cc) ==
    {<<q.from.tables[t].queries[a], cc.computed_tables[cc.from[t].index + 1].arms[a]>> :
        t \in {u \in DOMAIN q.from.tables : q.from.tables[u].kind = "Union"},
        a \in {1, 2}}

\* C5: the SelectQuery made from a known-empty ConjoiningClauses has limit
\* 0 whatever limit was asked for, in query_to_select and in every
\* cc_to_select_query of a union arm.
C5_KnownEmptyLimitZero ==
    Translated(select) =>
        /\ is_known_empty(aq.cc) => select.limit = Some(0)
        /\ \A qa \in ArmQueries(select, aq.cc) :
               is_known_empty(qa[2]) => qa[1].limit = Some(0)

\* A known-empty query with tables, limited to 5 by the caller, translated.
C5_Witness ==
    /\ Translated(select)
    /\ is_known_empty(aq.cc)
    /\ aq.cc.from # <<>>
    /\ aq.limit = Some(5)
    /\ select.limit = Some(0)

\* The FROM of q lists the tables of cc: the table itself, or the union under
\* the alias of the computed table.
OverTables(q, cc) ==
    IF cc.from = <<>> THEN q.from = FromNothing
    ELSE /\ q.from.kind = "TableList"
         /\ Len(q.from.tables) = Len(cc.from)
         /\ \A t \in DOMAIN cc.from :
                IF cc.from[t].table = "Computed"
                THEN q.from.tables[t].kind = "Union" /\ q.from.tables[t].alias = cc.from[t].alias
                ELSE q.from.tables[t] = TableOrSubqueryTable(cc.from[t])

\* C6: cc_to_exists on a known-empty CC is exactly SELECT 1 LIMIT 0, without
\* the CC's tables and constraints; on any other CC it is a non-distinct
\* projection of 1 over the CC's tables and constraints with limit 1.
C6_Exists ==
    Translated(exists) =>
        IF is_known_empty(aq.cc)
        THEN exists = SelectQuery(FALSE, ProjectionOne, FromNothing, <<>>, Some(0))
        ELSE /\ exists.distinct = FALSE
             /\ exists.projection = ProjectionOne
             /\ exists.limit = Some(1)
             /\ OverTables(exists, aq.cc)
             /\ exists.constraints = [i \in DOMAIN aq.cc.wheres |-> to_constraint(aq.cc.wheres[i])]

\* cc_to_exists ran on a known-empty CC that has tables and constraints.
C6_Witness ==
    /\ Translated(exists)
    /\ is_known_empty(aq.cc)
    /\ aq.cc.from # <<>>
    /\ aq.cc.wheres # <<>>

LimitValues ==
    {applied[i].some : i \in {j \in DOMAIN applied : applied[j] # None}}
    \cup (IF is_unit_limited(aq.find_spec) THEN {1} ELSE {})

\* C8: after any sequence of apply_limit calls the limit is the minimum of
\* the initial limit and every Some(n) applied, None counting as no limit; a
\* scalar or tuple query never has a limit above 1.
C8_LimitIsMinimum ==
    /\ aq.limit = IF LimitValues = {} THEN None
                  ELSE Some(CHOOSE n \in LimitValues : \A m \in LimitValues : n <= m)
    /\ is_unit_limited(aq.find_spec) => (aq.limit # None /\ aq.limit.some <= 1)

\* A relation query limited to 2 and then asked for 5 keeps 2.
C8_Witness ==
    /\ aq.find_spec.kind = "FindRel"
    /\ applied = <<Some(2), Some(5)>>
    /\ aq.limit = Some(2)

(***************************************************************************)
(* Namespaced keywords (edn/src/symbols.rs).                               *)
(***************************************************************************)

\* NamespaceableName::new: neither part may be empty.
NamespaceableName_new(namespace, name) ==
    IF namespace = <<>> \/ name = <<>> THEN Panic
    ELSE [namespace |-> namespace, name |-> name]

\* NamespacedKeyword::new.
NamespacedKeyword_new(namespace, name) ==
    IF namespace = <<>> THEN Panic ELSE NamespaceableName_new(namespace, name)

\* NamespacedKeyword::is_backward.
is_backward(k) == starts_with(k.name, <<"_">>)

\* NamespacedKeyword::to_reversed.
to_reversed(k) ==
    IF starts_with(k.name, <<"_">>)
    THEN NamespacedKeyword_new(k.namespace, skip(k.name, 1))
    ELSE NamespacedKeyword_new(k.namespace, <<"_">> \o k.name)

\* Bound on the length of a keyword's name.
MaxName == 3

\* Bound on the number of keywords in a chain of to_reversed calls.
MaxReverse == 3

NameChars == {"_", "a", "b"}

Names == UNION {[1..n -> NameChars] : n \in 1..MaxName}

Namespaces == {<<"f">>, <<"_", "a">>}

ToReversed ==
    /\ trace # <<>>
    /\ Len(trace) < MaxReverse
    /\ trace[Len(trace)] # Panic
    /\ trace' = Append(trace, to_reversed(trace[Len(trace)]))
    /\ UNCHANGED <<builder_vars, query_vars, pattern_vars, ext_vars>>

InitKeyword ==
    /\ trace \in {<<NamespacedKeyword_new(ns, name)>> : ns \in Namespaces, name \in Names}
    /\ NoBuilder /\ NoQuery /\ NoPattern /\ NoExt

NextKeyword == ToReversed

SpecKeyword == InitKeyword /\ [][NextKeyword]_vars

\* C9: to_reversed is an involution: reversing any keyword twice, forward or
\* backward and whatever the number of leading underscores of its name,
\* gives the keyword back (stated for the keywords both reversals construct).
C9_ToReversedInvolution ==
    \A i \in DOMAIN trace :
        ((i + 2) \in DOMAIN trace /\ trace[i + 2] # Panic) => trace[i + 2] = trace[i]

(***************************************************************************)
(* Parsing a pattern (query-parser/src/parse.rs, Where::pattern).          *)
(***************************************************************************)

NoKeywordPayload == [namespace |-> <<>>, name |-> <<>>]

\* A place of a pattern, PatternNonValuePlace or PatternValuePlace: its
\* variant, and the variable, integer or keyword it carries.
Place(kind, var, n, kw) == [kind |-> kind, var |-> var, n |-> n, kw |-> kw]

Placeholder == Place("Placeholder", "", 0, NoKeywordPayload)

Variable(var) == Place("Variable", var, 0, NoKeywordPayload)

\* PatternNonValuePlace::Entid and ::Ident.
Entid(n) == Place("Entid", "", n, NoKeywordPayload)

Ident(kw) == Place("Ident", "", 0, kw)

\* PatternValuePlace::EntidOrInteger, ::IdentOrKeyword and ::Constant (a
\* constant is identified by a number).
EntidOrInteger(n) == Place("EntidOrInteger", "", n, NoKeywordPayload)

IdentOrKeyword(kw) == Place("IdentOrKeyword", "", 0, kw)

Constant(n) == Place("Constant", "", n, NoKeywordPayload)

Pattern(source, entity, attribute, value, tx) ==
    [source |-> source, entity |-> entity, attribute |-> attribute, value |-> value, tx |-> tx]

\* PatternNonValuePlace::to_pattern_value_place.
to_pattern_value_place(e) ==
    CASE e.kind = "Placeholder" -> Placeholder
      [] e.kind = "Variable"    -> Variable(e.var)
      [] e.kind = "Entid"       -> EntidOrInteger(e.n)
      [] e.kind = "Ident"       -> IdentOrKeyword(e.kw)

\* PatternValuePlace::into_pattern_non_value_place: reversal is only valid
\* when the value position is a variable.
into_pattern_non_value_place(v) ==
    IF v.kind = "Variable" THEN Some(Variable(v.var)) ELSE None

\* Pattern::new: None when a backward attribute meets a value that cannot
\* stand in the entity position, Panic when the reversed keyword cannot be
\* constructed.
Pattern_new(src, e, a, v, tx) ==
    IF a.kind = "Ident" /\ is_backward(a.kw)
    THEN IF into_pattern_non_value_place(v) = None
         THEN None
         ELSE IF to_reversed(a.kw) = Panic
              THEN Panic
              ELSE Some(Pattern(src, into_pattern_non_value_place(v).some,
                                Ident(to_reversed(a.kw)), to_pattern_value_place(e), tx))
    ELSE Some(Pattern(src, e, a, v, tx))

ParseError == [error |-> "pattern"]

Ok(x) == [ok |-> x]

\* Where::pattern that keeps the places as given when Pattern::new refuses.
Where_pattern_lenient(src, e, a, v, tx) ==
    LET value == IF v = None THEN Placeholder ELSE v.some
        txp   == IF tx = None THEN Placeholder ELSE tx.some
        p     == Pattern_new(src, e, a, value, txp)
    IN  IF p = Panic THEN Panic
        ELSE IF p = None THEN Ok(Pattern(src, e, a, value, txp))
        ELSE Ok(p.some)

\* Where::pattern, from the places the sequence parser hands to and_then.
Where_pattern(src, e, a, v, tx) ==
    LET value == IF v = None THEN Placeholder ELSE v.some
        txp   == IF tx = None THEN Placeholder ELSE tx.some
        p     == Pattern_new(src, e, a, value, txp)
    IN  IF p = Panic THEN Panic
        ELSE IF p = None THEN ParseError
        ELSE Ok(p.some)

Foo(name) == [namespace |-> <<"f">>, name |-> name]

Sources == {None, Some("$")}

Entities == {Placeholder, Variable("?x"), Entid(5), Ident(Foo(<<"b">>))}

Attributes == {Variable("?a"), Ident(Foo(<<"b">>)), Ident(Foo(<<"_", "b">>)),
               Ident(Foo(<<"_", "_", "b">>)), Ident(Foo(<<"_">>))}

Values == {None, Some(Placeholder), Some(Variable("?v")), Some(EntidOrInteger(5)),
           Some(EntidOrInteger(-1)), Some(IdentOrKeyword(Foo(<<"b">>))), Some(Constant(99))}

Txs == {None, Some(Placeholder), Some(Variable("?tx"))}

PatternInputs == [src : Sources, e : Entities, a : Attributes, v : Values, tx : Txs]

ParsePattern ==
    /\ input # None
    /\ parsed = None
    /\ parsed' = Where_pattern(input.src, input.e, input.a, input.v, input.tx)
    /\ UNCHANGED <<input, builder_vars, query_vars, keyword_vars, ext_vars>>

InitPattern ==
    /\ input \in PatternInputs
    /\ parsed = None
    /\ NoBuilder /\ NoQuery /\ NoKeyword /\ NoExt

NextPattern == ParsePattern

SpecPattern == InitPattern /\ [][NextPattern]_vars

\* The attribute of the input is a reversed keyword :ns/_a.
ReversedAttribute ==
    /\ input.a.kind = "Ident"
    /\ Len(input.a.kw.name) > 1
    /\ input.a.kw.name[1] = "_"

ForwardName == SubSeq(input.a.kw.name, 2, Len(input.a.kw.name))

VariableValue == input.v # None /\ input.v.some.kind = "Variable"

TxOrPlaceholder == IF input.tx = None THEN Placeholder ELSE input.tx.some

EdnValue(kind, n, s) == [kind |-> kind, n |-> n, s |-> s]

\* Query::natural_number that lets zero through.
natural_number_nonneg(v) ==
    IF v.kind = "Integer" /\ v.n >= 0
    THEN Ok(v.n)
    ELSE [err |-> "InvalidLimit", value |-> v]

\* Query::natural_number: x as u64, which is x itself, for an Integer(x) with
\* x > 0.
natural_number(v) ==
    IF v.kind = "Integer" /\ v.n > 0
    THEN Ok(v.n)
    ELSE [err |-> "InvalidLimit", value |-> v]

\* Find::vars that collects the variables without comparing the sizes.
Find_vars_lenient(vars_given) == Ok({vars_given[i] : i \in DOMAIN vars_given})

\* Find::vars: the BTreeSet of the variables, or DuplicateVariableError when
\* the set is smaller than the list.
Find_vars(vars_given) ==
    LET given == Len(vars_given)
        set   == {vars_given[i] : i \in DOMAIN vars_given}
    IN  IF given # Cardinality(set)
        THEN [err |-> "DuplicateVariableError", value |-> EdnValue("Nil", 0, "")]
        ELSE Ok(set)

\* The and_then of Find::query without the test on a variable limit.
Find_query_unchecked(find_spec, in_vars, limit, where_clauses, with_vars) ==
    LET lim == IF limit = None THEN [kind |-> "None", n |-> 0, var |-> ""] ELSE limit.some
        ins == IF in_vars = None THEN {} ELSE in_vars.some
    IN  IF find_spec = None THEN [err |-> "Unexpected", value |-> EdnValue("Text", 0, "expected :find")]
        ELSE IF where_clauses = None
        THEN [err |-> "Unexpected", value |-> EdnValue("Text", 0, "expected :where")]
        ELSE Ok([find_spec |-> find_spec.some, in_vars |-> ins, limit |-> lim,
                 where_clauses |-> where_clauses.some,
                 with |-> IF with_vars = None THEN {} ELSE with_vars.some])

\* The and_then of Find::query, from the values keyword_map_of parsed: a
\* FindQuery, or the error.  Limit is None, Fixed(n) or Variable(var).
Find_query(find_spec, in_vars, limit, where_clauses, with_vars) ==
    LET lim == IF limit = None THEN [kind |-> "None", n |-> 0, var |-> ""] ELSE limit.some
        ins == IF in_vars = None THEN {} ELSE in_vars.some
    IN  IF lim.kind = "Variable" /\ lim.var \notin ins
        THEN [err |-> "UnknownLimitVar", value |-> EdnValue("PlainSymbol", 0, lim.var)]
        ELSE IF find_spec = None
        THEN [err |-> "Unexpected", value |-> EdnValue("Text", 0, "expected :find")]
        ELSE IF where_clauses = None
        THEN [err |-> "Unexpected", value |-> EdnValue("Text", 0, "expected :where")]
        ELSE Ok([find_spec |-> find_spec.some, in_vars |-> ins, limit |-> lim,
                 where_clauses |-> where_clauses.some,
                 with |-> IF with_vars = None THEN {} ELSE with_vars.some])

\* Bound on the length of the variable lists of :in and :with.
MaxVars == 2

QueryVariables == {"?x", "?y"}

VarLists == UNION {[1..n -> QueryVariables] : n \in 0..MaxVars}

LimitValues_raw ==
    {EdnValue("PlainSymbol", 0, "?x"), EdnValue("PlainSymbol", 0, "?z"),
     EdnValue("PlainSymbol", 0, "foo"), EdnValue("Integer", -10, ""), EdnValue("Integer", 0, ""),
     EdnValue("Integer", 1, ""), EdnValue("Integer", 5, ""), EdnValue("Text", 0, "foo"),
     EdnValue("Float", 0, "1.5"), EdnValue("BigInteger", 5, "")}

Optional(S) == {None} \cup {Some(x) : x \in S}

\* A key of the map that has a value still to be parsed.
Pending == [pending |-> TRUE]

\* Variable::from_value: a plain symbol that starts with a question mark.
IsVariable(v) == v.kind = "PlainSymbol" /\ v.s \in {"?x", "?y", "?z"}

find_frame == <<builder_vars, query_vars, keyword_vars, pattern_vars, resolve, rel, cache, more_vars>>

\* The parser of :in (part = "in_vars") or of :with (part = "with_vars").
ParseVars(part) ==
    /\ find # None /\ find.result = None
    /\ find[part] = Pending
    /\ LET r == Find_vars(find.raw[part].some)
       IN  find' = IF "err" \in DOMAIN r
                   THEN [find EXCEPT !.result = r, !.failed = part]
                   ELSE [find EXCEPT ![part] = Some(r.ok)]
    /\ UNCHANGED find_frame

\* The parser of :limit: a variable, or else a natural number.
ParseLimit ==
    /\ find # None /\ find.result = None
    /\ find.limit = Pending
    /\ LET v == find.raw.limit.some
           r == natural_number(v)
       IN  find' = IF IsVariable(v)
                   THEN [find EXCEPT !.limit = Some([kind |-> "Variable", n |-> 0, var |-> v.s])]
                   ELSE IF "err" \in DOMAIN r
                   THEN [find EXCEPT !.result = r, !.failed = "limit"]
                   ELSE [find EXCEPT !.limit = Some([kind |-> "Fixed", n |-> r.ok, var |-> ""])]
    /\ UNCHANGED find_frame

\* The and_then of Find::query, once every key of the map is parsed.
BuildFindQuery ==
    /\ find # None /\ find.result = None
    /\ Pending \notin {find.in_vars, find.with_vars, find.limit}
    /\ LET r == Find_query(find.raw.find_spec, find.in_vars, find.limit,
                           find.raw.where_clauses, find.with_vars)
       IN  find' = [find EXCEPT !.result = r,
                                !.failed = IF "err" \in DOMAIN r THEN "query" ELSE ""]
    /\ UNCHANGED find_frame

InitFind ==
    /\ \E raw \in [find_spec : Optional({FindSpec("FindRel", <<"?x">>)}), in_vars : Optional(VarLists),
                   limit : Optional(LimitValues_raw), where_clauses : Optional({"clauses"}),
                   with_vars : Optional(VarLists)] :
           find = [raw       |-> raw,
                   in_vars   |-> IF raw.in_vars = None THEN None ELSE Pending,
                   with_vars |-> IF raw.with_vars = None THEN None ELSE Pending,
                   limit     |-> IF raw.limit = None THEN None ELSE Pending,
                   result    |-> None,
                   failed    |-> ""]
    /\ resolve = None /\ rel = None /\ cache = None /\ NoMore
    /\ NoBuilder /\ NoQuery /\ NoKeyword /\ NoPattern

NextFind ==
    \/ \E part \in {"in_vars", "with_vars"} : ParseVars(part)
    \/ ParseLimit
    \/ BuildFindQuery

SpecFind == InitFind /\ [][NextFind]_vars

\* The :limit of the query is a value other than a variable, and its parser
\* has run.
FixedLimitParsed ==
    /\ find # None
    /\ find.raw.limit # None
    /\ ~ IsVariable(find.raw.limit.some)
    /\ find.limit # Pending \/ find.failed = "limit"

\* C11: a fixed :limit is accepted only when it is an Integer strictly
\* greater than 0, and is then stored unchanged as Limit::Fixed(n); zero,
\* negative integers and every other value are rejected with InvalidLimit
\* carrying the value.
C11_NaturalLimit ==
    FixedLimitParsed =>
        LET v == find.raw.limit.some
        IN  IF v.kind = "Integer" /\ v.n > 0
            THEN find.limit = Some([kind |-> "Fixed", n |-> v.n, var |-> ""])
            ELSE /\ find.failed = "limit"
                 /\ find.result = [err |-> "InvalidLimit", value |-> v]

\* :limit 0 was parsed and rejected.
C11_Witness ==
    /\ FixedLimitParsed
    /\ find.raw.limit.some = EdnValue("Integer", 0, "")
    /\ find.failed = "limit"

\* The :limit of the query is a variable and the and_then of Find::query
\* has run.
VariableLimitBuilt ==
    /\ find # None
    /\ find.limit # None /\ find.limit # Pending
    /\ find.limit.some.kind = "Variable"
    /\ find.result # None
    /\ find.failed \in {"", "query"}

LimitVarListed ==
    /\ find.raw.in_vars # None
    /\ \E i \in DOMAIN find.raw.in_vars.some :
           find.raw.in_vars.some[i] = find.limit.some.var

\* C12: a query whose :limit is a variable is accepted only if the variable
\* is listed in :in; when :in is absent or does not list it the result is
\* UnknownLimitVar and not a FindQuery.
C12_LimitVarInIn ==
    VariableLimitBuilt =>
        IF LimitVarListed
        THEN IF find.failed = ""
             THEN find.result.ok.limit = find.limit.some
             ELSE find.result.err # "UnknownLimitVar"
        ELSE /\ find.failed = "query"
             /\ find.result = [err |-> "UnknownLimitVar",
                               value |-> EdnValue("PlainSymbol", 0, find.limit.some.var)]

\* :limit ?z with :in [?x ?y] was rejected.
C12_Witness ==
    /\ VariableLimitBuilt
    /\ find.limit.some.var = "?z"
    /\ find.raw.in_vars = Some(<<"?x", "?y">>)
    /\ find.failed = "query"

\* The variable list of part has been parsed.
VarsParsed(part) ==
    /\ find # None
    /\ find.raw[part] # None
    /\ find[part] # Pending \/ find.failed = part

HasDuplicate(list) == \E i, j \in DOMAIN list : i # j /\ list[i] = list[j]

\* C13: the variable list of :in and of :with is rejected with
\* DuplicateVariableError when a variable occurs twice in it, and otherwise
\* yields the set of exactly the listed variables.
C13_DuplicateVars ==
    \A part \in {"in_vars", "with_vars"} :
        VarsParsed(part) =>
            IF HasDuplicate(find.raw[part].some)
            THEN /\ find.failed = part
                 /\ find.result.err = "DuplicateVariableError"
            ELSE /\ find[part] # None
                 /\ \A var \in QueryVariables :
                        var \in find[part].some
                            <=> \E i \in DOMAIN find.raw[part].some : find.raw[part].some[i] = var

\* :with [?x ?x] was rejected after :in [?x ?y] was accepted.
C13_Witness ==
    /\ VarsParsed("with_vars") /\ VarsParsed("in_vars")
    /\ find.raw.with_vars = Some(<<"?x", "?x">>)
    /\ find.in_vars = Some({"?x", "?y"})
    /\ find.failed = "with_vars"

\* The unions of a translated query, each with the computed table it
\* was made from.
UnionTables(q, cc) ==
    {<<q.from.tables[t], cc.computed_tables[cc.from[t].index + 1]>> :
        t \in {u \in DOMAIN q.from.tables : q.from.tables[u].kind = "Union"}}

\* The first column bound to var in the arm.
FirstBinding(arm, var) ==
    (CHOOSE e \in {arm.column_bindings[i] : i \in DOMAIN arm.column_bindings} : e[1] = var)[2][1]

\* q is what a union with this projection asks of the arm.
ArmSelect(q, projection, arm) ==
    /\ q.projection.kind = "Columns"
    /\ Len(q.projection.columns) = Len(projection)
    /\ \A p \in DOMAIN projection :
           /\ q.projection.columns[p].name = projection[p]
           /\ q.projection.columns[p].expr = CoeColumn(FirstBinding(arm, projection[p]))
    /\ ~ q.distinct
    /\ q.limit = IF arm.empty_because = None THEN None ELSE Some(0)

from_datalog_operator_sql(s) ==
    CASE s = "<"  -> Some("LessThan")
      [] s = "<=" -> Some("LessThanOrEquals")
      [] s = ">"  -> Some("GreaterThan")
      [] s = ">=" -> Some("GreaterThanOrEquals")
      [] s = "!=" -> Some("NotEquals")
      [] s = "<>" -> Some("NotEquals")
      [] OTHER    -> None

\* NumericComparison::from_datalog_operator.
from_datalog_operator(s) ==
    CASE s = "<"  -> Some("LessThan")
      [] s = "<=" -> Some("LessThanOrEquals")
      [] s = ">"  -> Some("GreaterThan")
      [] s = ">=" -> Some("GreaterThanOrEquals")
      [] s = "!=" -> Some("NotEquals")
      [] OTHER    -> None

\* FnArg: its variant (for a Constant, the variant of the NonIntegerConstant),
\* and the variable or the number it carries.
FnArg(kind, var, n) == [kind |-> kind, var |-> var, n |-> n]

\* ConjoiningClauses::mark_known_empty: the first reason is kept.
mark_known_empty(cc, why) ==
    IF cc.empty_because # None THEN cc ELSE [cc EXCEPT !.empty_because = Some(why)]

\* ConjoiningClauses::constrain_var_to_type / constrain_var_to_numeric: the
\* variable's type set is narrowed by intersection, and an empty set makes
\* the CC known-empty.
constrain_var_to_types(cc, var, types) ==
    LET narrowed == cc.known_types[var] \cap types
        cc1      == [cc EXCEPT !.known_types[var] = narrowed]
    IN  IF narrowed = {} THEN mark_known_empty(cc1, "TypeMismatch") ELSE cc1

\* The first column bound to the variable, as a QueryValue, or UnboundVariable.
FirstColumn(cc, var) ==
    IF MapHas(cc.column_bindings, var) /\ MapGet(cc.column_bindings, var) # <<>>
    THEN Ok(QvColumn(MapGet(cc.column_bindings, var)[1]))
    ELSE [err |-> "UnboundVariable", var |-> var]

\* ConjoiningClauses::resolve_numeric_argument: the CC after the call and
\* what the call returns.
resolve_numeric_argument(cc, function, position, arg) ==
    CASE arg.kind = "Variable" ->
            [cc |-> constrain_var_to_types(cc, arg.var, {"Long", "Double"}),
             result |-> FirstColumn(cc, arg.var)]
      [] arg.kind = "EntidOrInteger" ->
            [cc |-> cc, result |-> Ok(QvTypedValue(TvLong(arg.n)))]
      [] arg.kind \in {"IdentOrKeyword", "SrcVar", "Boolean", "Text", "Uuid", "Instant",
                       "BigInteger", "Vector"} ->
            [cc |-> mark_known_empty(cc, "NonNumericArgument"),
             result |-> [err |-> "InvalidArgument", function |-> function,
                         expected |-> "numeric", position |-> position]]
      [] arg.kind = "Float" ->
            [cc |-> cc, result |-> Ok(QvTypedValue(TvDouble(<<"9", ".", "5">>)))]

\* resolve_instant_argument that takes an integer for a timestamp.
resolve_instant_argument_integer(cc, function, position, arg) ==
    CASE arg.kind = "Variable" ->
            [cc |-> constrain_var_to_types(cc, arg.var, {"Instant"}),
             result |-> FirstColumn(cc, arg.var)]
      [] arg.kind \in {"Instant", "EntidOrInteger"} ->
            [cc |-> cc, result |-> Ok(QvTypedValue(TvInstant(arg.n)))]
      [] OTHER ->
            [cc |-> mark_known_empty(cc, "NonInstantArgument"),
             result |-> [err |-> "InvalidArgument", function |-> function,
                         expected |-> "instant", position |-> position]]

\* ConjoiningClauses::resolve_instant_argument.
resolve_instant_argument(cc, function, position, arg) ==
    CASE arg.kind = "Variable" ->
            [cc |-> constrain_var_to_types(cc, arg.var, {"Instant"}),
             result |-> FirstColumn(cc, arg.var)]
      [] arg.kind = "Instant" ->
            [cc |-> cc, result |-> Ok(QvTypedValue(TvInstant(arg.n)))]
      [] arg.kind \in {"EntidOrInteger", "IdentOrKeyword", "SrcVar", "Boolean", "Float", "Text",
                       "Uuid", "BigInteger", "Vector"} ->
            [cc |-> mark_known_empty(cc, "NonInstantArgument"),
             result |-> [err |-> "InvalidArgument", function |-> function,
                         expected |-> "instant", position |-> position]]

\* Bound on the position of an argument.
MaxPosition == 1

ValueTypes == {"Ref", "Boolean", "Long", "Double", "String", "Keyword", "Uuid", "Instant"}

\* ?x is bound to a column; ?u has no binding, or an empty list of columns.
ResolveVariables == {"?x", "?u"}

FnArgs ==
    {FnArg("Variable", var, 0) : var \in ResolveVariables}
    \cup {FnArg("EntidOrInteger", "", 5), FnArg("EntidOrInteger", "", -3), FnArg("Float", "", 0),
          FnArg("Instant", "", 7)}
    \cup {FnArg(kind, "", 0) :
              kind \in {"IdentOrKeyword", "SrcVar", "Boolean", "Text", "Uuid", "BigInteger", "Vector"}}

DatalogOperators == {"<", "<=", ">", ">=", "!=", "<>", "=", "==", "not=", "before"}

resolve_frame == <<builder_vars, query_vars, keyword_vars, pattern_vars, find, rel, cache, more_vars>>

ResolveNumericArgument(function, position, arg) ==
    /\ resolve # None
    /\ LET r == resolve_numeric_argument(resolve.cc, function, position, arg)
       IN  resolve' = [cc |-> r.cc,
                       last |-> [op |-> "resolve_numeric_argument", function |-> function,
                                 position |-> position, arg |-> arg, result |-> r.result]]
    /\ UNCHANGED resolve_frame

ResolveInstantArgument(function, position, arg) ==
    /\ resolve # None
    /\ LET r == resolve_instant_argument(resolve.cc, function, position, arg)
       IN  resolve' = [cc |-> r.cc,
                       last |-> [op |-> "resolve_instant_argument", function |-> function,
                                 position |-> position, arg |-> arg, result |-> r.result]]
    /\ UNCHANGED resolve_frame

FromDatalogOperator(s) ==
    /\ resolve # None
    /\ resolve' = [cc |-> resolve.cc,
                   last |-> [op |-> "from_datalog_operator", function |-> s, position |-> 0,
                             arg |-> FnArg("", "", 0), result |-> from_datalog_operator(s)]]
    /\ UNCHANGED resolve_frame

InitResolve ==
    /\ \E types \in {ValueTypes, {"Long"}, {"Instant"}, {"String"}},
          eb \in EmptyBecauses,
          unbound \in {<<>>, <<<<"?u", <<>>>>>>} :
           resolve = [cc |-> [column_bindings |-> <<BindX("datoms00")>> \o unbound,
                              known_types |-> [var \in ResolveVariables |->
                                                  IF var = "?x" THEN types ELSE ValueTypes],
                              empty_because |-> eb],
                      last |-> [op |-> "", function |-> "", position |-> 0,
                                arg |-> FnArg("", "", 0), result |-> None]]
    /\ find = None /\ rel = None /\ cache = None /\ NoMore
    /\ NoBuilder /\ NoQuery /\ NoKeyword /\ NoPattern

NextResolve ==
    \/ \E function \in {"<", "before"}, position \in 0..MaxPosition, arg \in FnArgs :
           ResolveNumericArgument(function, position, arg)
    \/ \E function \in {"<", "before"}, position \in 0..MaxPosition, arg \in FnArgs :
           ResolveInstantArgument(function, position, arg)
    \/ \E s \in DatalogOperators : FromDatalogOperator(s)

SpecResolve == InitResolve /\ [][NextResolve]_vars

RecognisedOperators == {"<", "<=", ">", ">=", "!="}

\* C15: from_datalog_operator recognises <, <=, >, >= and != and nothing
\* else; each maps to the SQL operator of the same spelling, except != which
\* maps to <>, and a NumericInequality with it becomes an infix constraint
\* with that operator and the operands in their order.
C15_NumericComparison ==
    (resolve # None /\ resolve.last.op = "from_datalog_operator") =>
        LET s == resolve.last.function
            r == resolve.last.result
            left  == QvColumn(Col("datoms00", "v"))
            right == QvTypedValue(TvLong(12))
            sql   == IF s = "!=" THEN "<>" ELSE s
        IN  IF s \in RecognisedOperators
            THEN /\ r # None
                 /\ to_sql_operator(r.some) = sql
                 /\ to_constraint(NumericInequality(r.some, left, right))
                        = [kind |-> "Infix", op |-> sql,
                           left |-> CoeColumn(Col("datoms00", "v")),
                           right |-> CoeValue(TvLong(12))]
            ELSE r = None

\* != was recognised as NotEquals.
C15_Witness ==
    /\ resolve # None
    /\ resolve.last.op = "from_datalog_operator"
    /\ resolve.last.function = "!="
    /\ resolve.last.result = Some("NotEquals")

HasColumn(var) ==
    \E i \in DOMAIN resolve.cc.column_bindings :
        resolve.cc.column_bindings[i][1] = var /\ resolve.cc.column_bindings[i][2] # <<>>

\* What the resolver that accepts the kinds in `accepted`, besides variables,
\* owes for the last call.
ResolvedAs(accepted, expected) ==
    LET c == resolve.last
    IN  CASE c.arg.kind = "Variable" ->
                IF HasColumn(c.arg.var)
                THEN "ok" \in DOMAIN c.result /\ c.result.ok.kind = "Column"
                ELSE c.result = [err |-> "UnboundVariable", var |-> c.arg.var]
          [] c.arg.kind \in accepted ->
                "ok" \in DOMAIN c.result /\ c.result.ok.kind = "TypedValue"
          [] OTHER ->
                c.result = [err |-> "InvalidArgument", function |-> c.function,
                            expected |-> expected, position |-> c.position]

\* C16: resolve_numeric_argument fails with InvalidArgument(function,
\* "numeric", position) for every argument that is not a variable, an integer
\* or a float, resolve_instant_argument with InvalidArgument(function,
\* "instant", position) for every argument that is not a variable or an
\* instant, plain integers included; a variable with no column binding fails
\* with UnboundVariable.
C16_InvalidArgument ==
    resolve # None =>
        /\ resolve.last.op = "resolve_numeric_argument"
               => ResolvedAs({"EntidOrInteger", "Float"}, "numeric")
        /\ resolve.last.op = "resolve_instant_argument"
               => ResolvedAs({"Instant"}, "instant")

\* resolve_instant_argument refused a plain integer in position 1.
C16_Witness ==
    /\ resolve # None
    /\ resolve.last.op = "resolve_instant_argument"
    /\ resolve.last.arg.kind = "EntidOrInteger"
    /\ resolve.last.position = 1
    /\ resolve.last.result = [err |-> "InvalidArgument", function |-> "before",
                              expected |-> "instant", position |-> 1]
    /\ resolve.cc.empty_because = Some("NonInstantArgument")

(***************************************************************************)
(* Quoting and keyword arguments of the builder.                           *)
(***************************************************************************)

RECURSIVE Unquoted(_)
\* What a quoted identifier's content reads as: each pair of backticks is one
\* backtick, and a single backtick ends the identifier there.
Unquoted(s) ==
    IF s = <<>> THEN <<>>
    ELSE IF Head(s) # Backtick THEN <<Head(s)>> \o Unquoted(Tail(s))
    ELSE IF Len(s) >= 2 /\ s[2] = Backtick THEN <<Backtick>> \o Unquoted(skip(s, 2))
    ELSE <<"end of identifier">>

Backticks(s) == Cardinality({i \in DOMAIN s : s[i] = Backtick})

\* C17: push_identifier always succeeds and appends the identifier between
\* two backticks with every backtick in it doubled: the text has an even
\* number of backticks and its content reads back as the identifier, no part
\* of which ends the quoting.
C17_IdentifierQuoted ==
    \A i \in DOMAIN log :
        log[i].op = "push_identifier" =>
            /\ log[i].result = "Ok"
            /\ Len(log[i].text) >= 2
            /\ Head(log[i].text) = Backtick
            /\ log[i].text[Len(log[i].text)] = Backtick
            /\ Unquoted(SubSeq(log[i].text, 2, Len(log[i].text) - 1)) = log[i].name
            /\ Backticks(log[i].text) % 2 = 0
            /\ Backticks(log[i].text) = 2 + 2 * Backticks(log[i].name)

\* An identifier that ends with two backticks was pushed after other text.
C17_Witness ==
    \E i \in DOMAIN log :
        /\ i > 1
        /\ log[i].op = "push_identifier"
        /\ log[i].name = <<"b", Backtick, Backtick>>
        /\ Len(log[i].text) = 7

\* C18: pushing the same Keyword value more than once during one build
\* reuses one generated placeholder, bound to the keyword's :ns/name text.
C18_KeywordInterned ==
    /\ \A i, j \in DOMAIN log :
           (/\ log[i].op = "push_typed_value" /\ log[j].op = "push_typed_value"
            /\ log[i].value.type = "Keyword"
            /\ log[i].value = log[j].value)
               => log[i].text = log[j].text
    /\ \A i \in DOMAIN log :
           (log[i].op = "push_typed_value" /\ log[i].value.type = "Keyword")
               => \E a \in DOMAIN builder.args :
                      /\ builder.args[a][1] = log[i].text
                      /\ builder.args[a][2] =
                             Text(<<":">> \o log[i].value.ns \o <<"/">> \o log[i].value.s)

(***************************************************************************)
(* RelResult (query-projector/src/relresult.rs).                           *)
(***************************************************************************)

RECURSIVE Subvecs(_, _)
\* The values cut into vectors of width > 0 from the front, the last one
\* shorter when the values run out: slice::chunks, and SubvecIntoIterator::next
\* called until it returns None.
Subvecs(values, width) ==
    IF values = <<>> THEN <<>>
    ELSE IF Len(values) <= width THEN <<values>>
    ELSE <<SubSeq(values, 1, width)>> \o Subvecs(skip(values, width), width)

\* RelResult::row that refuses the last row.
row_short(r, index) ==
    LET end == r.width * (index + 1)
    IN  IF end >= Len(r.values) THEN None
        ELSE Some(SubSeq(r.values, r.width * index + 1, end))

\* RelResult::row.
row(r, index) ==
    LET end == r.width * (index + 1)
    IN  IF end > Len(r.values) THEN None
        ELSE Some(SubSeq(r.values, r.width * index + 1, end))

\* Bound on the width of a RelResult.
MaxWidth == 3

\* Bound on the number of values of a RelResult.
MaxValues == 4

RelValues == UNION {[1..n -> {5, -2}] : n \in 0..MaxValues}

rel_frame == <<builder_vars, query_vars, keyword_vars, pattern_vars, find, resolve, cache, more_vars>>

\* RelResult::row_count; the division panics when the width is 0.
RowCount ==
    /\ rel # None /\ ~ rel.consumed
    /\ rel' = [rel EXCEPT !.op = "row_count", !.index = 0,
                          !.result = IF rel.width = 0 THEN Panic
                                     ELSE Ok(Len(rel.values) \div rel.width)]
    /\ UNCHANGED rel_frame

\* RelResult::rows, read to the end; chunks panics when the width is 0.
Rows ==
    /\ rel # None /\ ~ rel.consumed
    /\ rel' = [rel EXCEPT !.op = "rows", !.index = 0,
                          !.result = IF rel.width = 0 THEN Panic
                                     ELSE Ok(Subvecs(rel.values, rel.width))]
    /\ UNCHANGED rel_frame

Row(index) ==
    /\ rel # None /\ ~ rel.consumed
    /\ rel' = [rel EXCEPT !.op = "row", !.index = index, !.result = row(rel, index)]
    /\ UNCHANGED rel_frame

\* RelResult::into_iter, read to the end: it takes the RelResult, and with
\* width 0 its first next() is None.
IntoIter ==
    /\ rel # None /\ ~ rel.consumed
    /\ rel' = [rel EXCEPT !.op = "into_iter", !.index = 0, !.consumed = TRUE,
                          !.result = IF rel.width = 0 THEN Ok(<<>>)
                                     ELSE Ok(Subvecs(rel.values, rel.width))]
    /\ UNCHANGED rel_frame

\* RelResult::is_empty
IsEmpty ==
    /\ rel # None /\ ~ rel.consumed
    /\ rel' = [rel EXCEPT !.op = "is_empty", !.index = 0, !.result = Ok(rel.values = <<>>)]
    /\ UNCHANGED rel_frame

\* RelResult::empty
empty(width) == [width |-> width, values |-> <<>>]

RECURSIVE Flatten(_)
Flatten(src) == IF src = <<>> THEN <<>> ELSE Head(src) \o Flatten(Tail(src))

\* From<Vec<Vec<TypedValue>>> for RelResult: the width is the length of the
\* first row.
RelResult_from(src) ==
    IF src = <<>> THEN empty(0)
    ELSE [width |-> Len(src[1]), values |-> Flatten(src)]

\* The vectors of rows a RelResult is made from.
RowLists == {<<>>, <<<<>>>>, <<<<5>>>>, <<<<5, -2>>, <<-2, 5>>>>}

\* A RelResult is a struct literal, RelResult::empty(width) or the conversion
\* of a vector of rows.
InitRel ==
    /\ \E made \in {[width |-> width, values |-> values] :
                        width \in 0..MaxWidth, values \in RelValues}
                   \cup {empty(width) : width \in 0..MaxWidth}
                   \cup {RelResult_from(src) : src \in RowLists} :
           rel = [width |-> made.width, values |-> made.values, consumed |-> FALSE,
                  op |-> "", index |-> 0, result |-> None]
    /\ find = None /\ resolve = None /\ cache = None /\ NoMore
    /\ NoBuilder /\ NoQuery /\ NoKeyword /\ NoPattern

NextRel ==
    \/ IsEmpty
    \/ RowCount
    \/ Rows
    \/ \E index \in 0..(MaxValues + 1) : Row(index)
    \/ IntoIter

SpecRel == InitRel /\ [][NextRel]_vars

\* values[w*i .. w*(i+1)]
Slice(i) == SubSeq(rel.values, rel.width * i + 1, rel.width * (i + 1))

\* C19: for a RelResult of width w > 0, row(i) is the slice
\* values[w*i .. w*(i+1)] when i < row_count() and None when i >= row_count();
\* when the number of values is a multiple of w, rows() and into_iter() give
\* the slices of row(0), row(1), ... in order.
C19_RelResultRows ==
    (rel # None /\ rel.width > 0) =>
        LET count == Len(rel.values) \div rel.width
        IN  /\ rel.op = "row_count" => rel.result = Ok(count)
            /\ rel.op = "row" =>
                   rel.result = IF rel.index < count THEN Some(Slice(rel.index)) ELSE None
            /\ (rel.op \in {"rows", "into_iter"} /\ Len(rel.values) % rel.width = 0) =>
                   rel.result = Ok([k \in 1..count |-> Slice(k - 1)])

\* The second and last row of a two by two RelResult was read.
C19_Witness ==
    /\ rel # None
    /\ rel.width = 2 /\ Len(rel.values) = 4
    /\ rel.op = "row" /\ rel.index = 1
    /\ rel.result = Some(SubSeq(rel.values, 3, 4))

(***************************************************************************)
(* AttributeCacher (src/cache.rs).  a_e_vs_cache is a function from the    *)
(* registered attributes to their cached maps; a cached map is a set of    *)
(* <<entid, values>> pairs.                                                *)
(***************************************************************************)

\* BTreeMap::remove
map_remove(m, key) == [k \in (DOMAIN m) \ {key} |-> m[k]]

\* BTreeMap::insert
map_insert(m, key, value) == [k \in (DOMAIN m) \cup {key} |-> IF k = key THEN value ELSE m[k]]

\* AttributeCacher::deregister_attribute that leaves the attribute registered.
deregister_attribute_peek(a_e_vs_cache, attribute) ==
    [a_e_vs_cache |-> a_e_vs_cache,
     result |-> IF attribute \in DOMAIN a_e_vs_cache
                THEN Some(a_e_vs_cache[attribute]) ELSE None]

\* AttributeCacher::deregister_attribute: the map after the call and the
\* value returned.
deregister_attribute(a_e_vs_cache, attribute) ==
    [a_e_vs_cache |-> map_remove(a_e_vs_cache, attribute),
     result |-> IF attribute \in DOMAIN a_e_vs_cache
                THEN Some(a_e_vs_cache[attribute]) ELSE None]

\* AttributeCacher::get
get(a_e_vs_cache, attribute) ==
    IF attribute \in DOMAIN a_e_vs_cache THEN Some(a_e_vs_cache[attribute]) ELSE None

CachedAttributes == {65, 66, 67}

\* What the store holds for an attribute when it is read.
CacheMaps == {{}, {<<10, <<100>>>>}, {<<10, <<100>>>>, <<11, <<200>>>>}}

cache_frame == <<builder_vars, query_vars, keyword_vars, pattern_vars, find, resolve, rel, more_vars>>

\* AttributeCacher::register_attribute that inserts the cacher before its
\* values are loaded.
RegisterAttribute_insert_first(attribute, read) ==
    /\ cache # None
    /\ cache' = [a_e_vs_cache |-> map_insert(cache.a_e_vs_cache, attribute,
                                              IF "err" \in DOMAIN read THEN {} ELSE read.ok),
                 before |-> cache.a_e_vs_cache,
                 op |-> "register_attribute", attribute |-> attribute,
                 result |-> IF "err" \in DOMAIN read THEN None ELSE Some(read.ok)]
    /\ UNCHANGED cache_frame

\* AttributeCacher::register_attribute; `read` is what cache_values got from
\* the store, an error leaving before the insert.
RegisterAttribute(attribute, read) ==
    /\ cache # None
    /\ cache' = [a_e_vs_cache |-> IF "err" \in DOMAIN read THEN cache.a_e_vs_cache
                                  ELSE map_insert(cache.a_e_vs_cache, attribute, read.ok),
                 before |-> cache.a_e_vs_cache,
                 op |-> "register_attribute", attribute |-> attribute,
                 result |-> IF "err" \in DOMAIN read THEN None ELSE Some(read.ok)]
    /\ UNCHANGED cache_frame

DeregisterAttribute(attribute) ==
    /\ cache # None
    /\ LET r == deregister_attribute(cache.a_e_vs_cache, attribute)
       IN  cache' = [a_e_vs_cache |-> r.a_e_vs_cache,
                     before |-> cache.a_e_vs_cache,
                     op |-> "deregister_attribute", attribute |-> attribute,
                     result |-> r.result]
    /\ UNCHANGED cache_frame

GetAttribute(attribute) ==
    /\ cache # None
    /\ cache' = [a_e_vs_cache |-> cache.a_e_vs_cache,
                 before |-> cache.a_e_vs_cache,
                 op |-> "get", attribute |-> attribute,
                 result |-> get(cache.a_e_vs_cache, attribute)]
    /\ UNCHANGED cache_frame

\* AttributeCacher::new
InitCache ==
    /\ cache = [a_e_vs_cache |-> [k \in {} |-> {}], before |-> [k \in {} |-> {}],
                op |-> "", attribute |-> 0, result |-> None]
    /\ find = None /\ resolve = None /\ rel = None /\ NoMore
    /\ NoBuilder /\ NoQuery /\ NoKeyword /\ NoPattern

NextCache ==
    \/ \E attribute \in CachedAttributes, read \in {Ok(m) : m \in CacheMaps} \cup {[err |-> "rusqlite"]} :
           RegisterAttribute(attribute, read)
    \/ \E attribute \in CachedAttributes : DeregisterAttribute(attribute)
    \/ \E attribute \in CachedAttributes : GetAttribute(attribute)

SpecCache == InitCache /\ [][NextCache]_vars

\* C20: deregister_attribute(a) returns the cached map of a when a was
\* registered and None otherwise; afterwards get(a) is None, every other
\* registered attribute keeps its entry, and nothing changes when a was not
\* registered.
C20_Deregister ==
    (cache # None /\ cache.op = "deregister_attribute") =>
        LET a == cache.attribute
            before == cache.before
            after == cache.a_e_vs_cache
        IN  /\ cache.result = IF a \in DOMAIN before THEN Some(before[a]) ELSE None
            /\ get(after, a) = None
            /\ DOMAIN after = (DOMAIN before) \ {a}
            /\ \A b \in DOMAIN after : get(after, b) = get(before, b)
            /\ a \notin DOMAIN before => after = before

\* One of two registered attributes was deregistered and its map returned.
C20_Witness ==
    /\ cache # None
    /\ cache.op = "deregister_attribute"
    /\ Cardinality(DOMAIN cache.before) = 2
    /\ cache.attribute \in DOMAIN cache.before
    /\ cache.result = Some({<<10, <<100>>>>})
    /\ Cardinality(DOMAIN cache.a_e_vs_cache) = 1

\* C21: after a successful register_attribute(a), get(a) is what was loaded
\* from the store for a, there is one entry per attribute and the other
\* entries are kept; registering a again while the store holds the same values
\* leaves the cache as it was; a register_attribute that fails while loading
\* leaves the whole map, an earlier entry for a included, as it was.
C21_Register ==
    (cache # None /\ cache.op = "register_attribute") =>
        LET a == cache.attribute
            before == cache.before
            after == cache.a_e_vs_cache
        IN  IF cache.result = None
            THEN after = before
            ELSE /\ get(after, a) = cache.result
                 /\ DOMAIN after = (DOMAIN before) \cup {a}
                 /\ \A b \in (DOMAIN before) \ {a} : get(after, b) = get(before, b)
                 /\ get(before, a) = cache.result => after = before

\* Loading failed for an attribute that was registered with values.
C21_Witness ==
    /\ cache # None
    /\ cache.op = "register_attribute"
    /\ cache.result = None
    /\ cache.attribute \in DOMAIN cache.before
    /\ cache.before[cache.attribute] # {}

(***************************************************************************)
(* Excision (db/src/excision.rs).  The store is its datoms table, rows     *)
(* [e, a, v], its excisions table, rows [e, target, before_tx, status],    *)
(* and its excision_attrs table, rows <<e, a>>.                            *)
(***************************************************************************)

\* entids::DB_EXCISE
DB_EXCISE == 50

Excision(target, attrs, before_tx) ==
    [target |-> target, attrs |-> attrs, before_tx |-> before_tx]

\* Option::unwrap_or
unwrap_or(option, default) == IF option = None THEN default ELSE option.some

\* enqueue_pending_excisions: the tables after the two INSERT loops and the
\* DELETE have run.
enqueue_pending_excisions(d, tx_id, excisions) ==
    LET rows == d.excisions \cup
                    {[e |-> entid, target |-> excisions[entid].target,
                      before_tx |-> excisions[entid].before_tx,
                      status |-> unwrap_or(excisions[entid].before_tx, tx_id)] :
                         entid \in DOMAIN excisions}
        attr_rows == d.excision_attrs \cup
                    UNION {IF excisions[entid].attrs = None THEN {}
                           ELSE {<<entid, attr>> : attr \in excisions[entid].attrs.some} :
                               entid \in DOMAIN excisions}
        ids == {x \in d.datoms :
                   \E e \in rows :
                       /\ e.status > 0
                       /\ \/ e.target = x.e
                          \/ (e.target = x.v /\ x.a # DB_EXCISE)}
    IN  [d EXCEPT !.datoms = d.datoms \ ids, !.excisions = rows, !.excision_attrs = attr_rows]

\* Bound on the number of excising transactions.
MaxExcisions == 2

Datom(e, a, v) == [e |-> e, a |-> a, v |-> v]

ExcisionTargets == {100, 101}

ExcisedAttributes == {65, 66}

StoredDatoms ==
    {{Datom(100, 65, 1), Datom(100, 66, 1), Datom(101, 65, 100), Datom(101, 66, 1),
      Datom(300, DB_EXCISE, 100)},
     {Datom(100, 65, 1), Datom(100, 66, 100), Datom(101, 66, 1)},
     {Datom(101, 65, 1)}}

Excisions ==
    {Excision(target, attrs, before_tx) :
        target \in ExcisionTargets,
        attrs \in {None} \cup {Some(S) : S \in SUBSET ExcisedAttributes},
        before_tx \in {None, Some(5)}}

db_frame == <<builder_vars, query_vars, keyword_vars, pattern_vars, find, resolve, rel, cache, type_set, repl>>

\* enqueue_pending_excisions for the excisions of `given` (none or one), each
\* on an excision entity of its own.
EnqueuePendingExcisions(tx_id, given) ==
    /\ db # None
    /\ db.count < MaxExcisions
    /\ LET excisions == [entid \in {200 + db.count + k : k \in 1..Len(given)} |->
                             given[entid - 200 - db.count]]
           after == enqueue_pending_excisions(db, tx_id, excisions)
       IN  db' = [after EXCEPT !.count = db.count + 1,
                               !.last = [before |-> db.datoms, excisions |-> excisions]]
    /\ UNCHANGED db_frame

InitExcision ==
    /\ \E datoms \in StoredDatoms :
           db = [datoms |-> datoms, excisions |-> {}, excision_attrs |-> {}, count |-> 0,
                 last |-> [before |-> datoms, excisions |-> <<>>]]
    /\ type_set = None /\ repl = None
    /\ find = None /\ resolve = None /\ rel = None /\ cache = None
    /\ NoBuilder /\ NoQuery /\ NoKeyword /\ NoPattern

NextExcision ==
    \E tx_id \in {7}, given \in {<<>>} \cup {<<x>> : x \in Excisions} :
        EnqueuePendingExcisions(tx_id, given)

SpecExcision == InitExcision /\ [][NextExcision]_vars

\* The attributes listed for the excision entity e in excision_attrs.
AttrsOf(e) == {r[2] : r \in {x \in db.excision_attrs : x[1] = e}}

\* C22: a datom of an excised target, not itself a reference to an excised
\* target, is deleted only if some pending excision of its entity lists no
\* attributes or lists the datom's attribute.
C22_ExcisionKeepsOtherAttrs ==
    db # None =>
        \A x \in db.last.before \ db.datoms :
            (\A e \in db.excisions : e.target # x.v) =>
                \E e \in db.excisions :
                    /\ e.status > 0 /\ e.target = x.e
                    /\ (AttrsOf(e.e) = {} \/ x.a \in AttrsOf(e.e))

(***************************************************************************)
(* Argument resolution and the state of the ConjoiningClauses.             *)
(***************************************************************************)

\* C23: a resolve_numeric_argument or resolve_instant_argument that returns
\* an error leaves the ConjoiningClauses (column bindings, known types,
\* empty_because) as it was before the call.
C23_FailureKeepsCC ==
    [][(/\ resolve # None
        /\ resolve'.last.op \in {"resolve_numeric_argument", "resolve_instant_argument"}
        /\ "err" \in DOMAIN resolve'.last.result)
       => resolve'.cc = resolve.cc]_vars

(***************************************************************************)
(* ValueTypeSet (query-algebrizer/src/types.rs).                           *)
(***************************************************************************)

VtsNone == [variant |-> "None"]

VtsAny == [variant |-> "Any"]

VtsOne(t) == [variant |-> "One", t |-> t]

VtsMany(ts) == [variant |-> "Many", ts |-> ts]

\* ValueTypeSet::unit
unit(t) == VtsOne(t)

\* ValueTypeSet::of_numeric_types
of_numeric_types == VtsMany({"Double", "Long"})

\* ValueTypeSet::contains
contains(s, vt) ==
    CASE s.variant = "None" -> FALSE
      [] s.variant = "Any"  -> TRUE
      [] s.variant = "One"  -> s.t = vt
      [] s.variant = "Many" -> vt \in s.ts

\* ValueTypeSet::union without the guards that catch a type already present.
union_unguarded(self, other) ==
    CASE self.variant = "None" -> other
      [] self.variant = "Any"  -> VtsAny
      [] self.variant = "One" ->
            (CASE other.variant = "None" -> self
               [] other.variant = "Any"  -> VtsAny
               [] other.variant = "One"  -> VtsMany({other.t, self.t})
               [] other.variant = "Many" -> VtsMany(other.ts \cup {self.t}))
      [] self.variant = "Many" ->
            (CASE other.variant = "None" -> self
               [] other.variant = "Any"  -> VtsAny
               [] other.variant = "One"  -> VtsMany(self.ts \cup {other.t})
               [] other.variant = "Many" -> VtsMany(other.ts \cup self.ts))

\* ValueTypeSet::union
union(self, other) ==
    CASE self.variant = "None" -> other
      [] self.variant = "Any"  -> VtsAny
      [] self.variant = "One" /\ contains(other, self.t) -> other
      [] self.variant = "One" /\ ~ contains(other, self.t) ->
            (CASE other.variant = "None" -> self
               [] other.variant = "Any"  -> VtsAny
               [] other.variant = "One" /\ self.t = other.t -> self
               [] other.variant = "One" /\ self.t # other.t -> VtsMany({other.t, self.t})
               [] other.variant = "Many" -> VtsMany(other.ts \cup {self.t}))
      [] self.variant = "Many" ->
            (CASE other.variant = "None" -> self
               [] other.variant = "Any"  -> VtsAny
               [] other.variant = "One" /\ other.t \in self.ts -> self
               [] other.variant = "One" /\ other.t \notin self.ts -> VtsMany(self.ts \cup {other.t})
               [] other.variant = "Many" -> VtsMany(other.ts \cup self.ts))

\* ValueTypeSet::intersection that keeps a One without looking at the other
\* set.
intersection_keep_one(self, other) ==
    IF self.variant = "None" THEN VtsNone
    ELSE IF other.variant = "None" THEN VtsNone
    ELSE IF other.variant = "Any" THEN self
    ELSE IF self.variant = "Any" THEN other
    ELSE IF self.variant = "One" THEN VtsOne(self.t)
    ELSE IF other.variant = "One" THEN VtsOne(other.t)
    ELSE LET result == self.ts \cap other.ts
         IN  IF Cardinality(result) = 0 THEN VtsNone
             ELSE IF Cardinality(result) = 1 THEN VtsOne(CHOOSE t \in result : TRUE)
             ELSE VtsMany(result)

\* ValueTypeSet::intersection: the arms of the match in their order.
intersection(self, other) ==
    IF self.variant = "None" THEN VtsNone
    ELSE IF other.variant = "None" THEN VtsNone
    ELSE IF other.variant = "Any" THEN self
    ELSE IF self.variant = "Any" THEN other
    ELSE IF self.variant = "One"
         THEN (IF contains(other, self.t) THEN VtsOne(self.t) ELSE VtsNone)
    ELSE IF other.variant = "One"
         THEN (IF contains(self, other.t) THEN VtsOne(other.t) ELSE VtsNone)
    ELSE LET result == self.ts \cap other.ts
         IN  IF Cardinality(result) = 0 THEN VtsNone
             ELSE IF Cardinality(result) = 1 THEN VtsOne(CHOOSE t \in result : TRUE)
             ELSE VtsMany(result)

\* ValueTypeSet::is_none
is_none(s) == s.variant = "None"

\* ValueTypeSet::is_unit
is_unit(s) == s.variant = "One"

\* The types the units are made of.
UnitTypes == {"Long", "Double", "Instant", "String"}

\* The sets every ValueTypeSet is built from.
BaseTypeSets == {VtsAny, VtsNone, of_numeric_types} \cup {unit(t) : t \in UnitTypes}

type_set_frame == <<builder_vars, query_vars, keyword_vars, pattern_vars, find, resolve, rel, cache, db, repl>>

\* One of the two sets at hand is replaced by a base set.
LoadTypeSet(dst, base) ==
    /\ type_set # None
    /\ type_set' = [type_set EXCEPT ![dst] = base,
                                    !.last = [op |-> "load", left |-> base, right |-> base,
                                              result |-> base]]
    /\ UNCHANGED type_set_frame

\* One of the two sets at hand is replaced by their union, taken in either
\* order.
UniteTypeSets(dst, left, right) ==
    /\ type_set # None
    /\ LET result == union(type_set[left], type_set[right])
       IN  type_set' = [type_set EXCEPT ![dst] = result,
                                        !.last = [op |-> "union", left |-> type_set[left],
                                                  right |-> type_set[right], result |-> result]]
    /\ UNCHANGED type_set_frame

\* One of the two sets at hand is replaced by their intersection, taken in
\* either order.
IntersectTypeSets(dst, left, right) ==
    /\ type_set # None
    /\ LET result == intersection(type_set[left], type_set[right])
       IN  type_set' = [type_set EXCEPT ![dst] = result,
                                        !.last = [op |-> "intersection", left |-> type_set[left],
                                                  right |-> type_set[right], result |-> result]]
    /\ UNCHANGED type_set_frame

InitTypeSet ==
    /\ \E a \in BaseTypeSets, b \in BaseTypeSets :
           type_set = [a |-> a, b |-> b,
                       last |-> [op |-> "load", left |-> a, right |-> b, result |-> b]]
    /\ db = None /\ repl = None
    /\ find = None /\ resolve = None /\ rel = None /\ cache = None
    /\ NoBuilder /\ NoQuery /\ NoKeyword /\ NoPattern

NextTypeSet ==
    \/ \E dst \in {"a", "b"}, base \in BaseTypeSets : LoadTypeSet(dst, base)
    \/ \E dst \in {"a", "b"}, left \in {"a", "b"}, right \in {"a", "b"} :
           UniteTypeSets(dst, left, right)
    \/ \E dst \in {"a", "b"}, left \in {"a", "b"}, right \in {"a", "b"} :
           IntersectTypeSets(dst, left, right)

SpecTypeSet == InitTypeSet /\ [][NextTypeSet]_vars

\* C24: intersection(a, b) contains a type iff a and b contain it; it is
\* commutative and idempotent, Any is its identity and None absorbs; union(a,
\* b) contains a type iff a or b contains it.
C24_Intersection ==
    type_set # None =>
        LET a == type_set.last.left
            b == type_set.last.right
            r == type_set.last.result
        IN  /\ type_set.last.op = "intersection" =>
                  /\ \A t \in ValueTypes : contains(r, t) <=> (contains(a, t) /\ contains(b, t))
                  /\ r = intersection(b, a)
                  /\ intersection(a, a) = a
                  /\ intersection(a, VtsAny) = a /\ intersection(VtsAny, a) = a
                  /\ intersection(a, VtsNone) = VtsNone /\ intersection(VtsNone, a) = VtsNone
            /\ type_set.last.op = "union" =>
                  \A t \in ValueTypes : contains(r, t) <=> (contains(a, t) \/ contains(b, t))

\* A set of three types was intersected with the numeric types, leaving both.
C24_Witness ==
    /\ type_set # None
    /\ type_set.last.op = "intersection"
    /\ type_set.last.left = VtsMany({"Double", "Long", "String"})
    /\ type_set.last.right = of_numeric_types
    /\ type_set.last.result = VtsMany({"Double", "Long"})

\* The types a set contains.
TypesIn(s) == {t \in ValueTypes : contains(s, t)}

NormalForm(s) ==
    /\ s.variant = "Many" => Cardinality(s.ts) >= 2
    /\ is_none(s) <=> TypesIn(s) = {}
    /\ is_unit(s) <=> Cardinality(TypesIn(s)) = 1

\* C25: every ValueTypeSet built from Any, None, unit(t) and
\* of_numeric_types() by union and intersection is in normal form: a Many
\* holds at least two types, is_none() is true exactly when the set contains
\* no type and is_unit() exactly when it contains one.
C25_NormalForm ==
    type_set # None =>
        NormalForm(type_set.a) /\ NormalForm(type_set.b) /\ NormalForm(type_set.last.result)

\* Two sets of two types were intersected down to a unit.
C25_Witness ==
    /\ type_set # None
    /\ type_set.last.op = "intersection"
    /\ type_set.last.left.variant = "Many" /\ type_set.last.right.variant = "Many"
    /\ is_unit(type_set.last.result)

(***************************************************************************)
(* The placeholders of a finished build.                                   *)
(***************************************************************************)

\* The placeholder names the builder has generated so far.
GeneratedNames == {builder.arg_prefix \o Digits(k) : k \in 0..(builder.arg_counter - 1)}

\* The text occurs in the SQL.
OccursIn(text, sql) ==
    \E i \in 1..(Len(sql) - Len(text) + 1) : SubSeq(sql, i, i + Len(text) - 1) = text

\* C26: after finish, every generated placeholder name occurs in the SQL and
\* has exactly one entry in args (so it is bound to one value), and every
\* entry of args is named by a generated placeholder that occurs in the SQL.
C26_PlaceholdersBound ==
    query # None =>
        LET q == query.some
        IN  /\ \A name \in GeneratedNames :
                   /\ OccursIn(name, q.sql)
                   /\ Cardinality({i \in DOMAIN q.args : q.args[i][1] = name}) = 1
            /\ \A i \in DOMAIN q.args :
                   q.args[i][1] \in GeneratedNames /\ OccursIn(q.args[i][1], q.sql)

\* A finished build with a string pushed twice, a keyword and so two
\* generated placeholders.
C26_Witness ==
    /\ query # None
    /\ builder.arg_counter = 2
    /\ Len(query.some.args) = 2
    /\ \E i, j \in InternedPushes : i < j /\ log[i].value = log[j].value
    /\ \E i \in DOMAIN log : log[i].op = "push_typed_value" /\ log[i].value.type = "Keyword"

\* C27: the argument list finish returns is in generation order: its i-th
\* entry is named by the i-th value of the counter, $v0, $v1, ..., $v9, $v10.
C27_GenerationOrder ==
    query # None =>
        \A i \in DOMAIN query.some.args :
            query.some.args[i][1] = builder.arg_prefix \o Digits(i - 1)

(***************************************************************************)
(* RelResults without values.                                              *)
(***************************************************************************)

\* C28: for a RelResult that holds no values, whatever its width, is_empty()
\* is true, row_count() returns 0 and row(0) returns None.
C28_EmptyRelResult ==
    (rel # None /\ rel.values = <<>>) =>
        /\ rel.op = "is_empty" => rel.result = Ok(TRUE)
        /\ rel.op = "row_count" => rel.result = Ok(0)
        /\ (rel.op = "row" /\ rel.index = 0) => rel.result = None

(***************************************************************************)
(* The FROM list and the computed tables.                                  *)
(***************************************************************************)

\* The CC with its from list replaced.
WithFrom(cc, from) == [cc EXCEPT !.from = from]

\* C29: translating a CC takes each computed table once, by an index inside
\* computed_tables, so the expectation of take_dangerously holds; the tables
\* of FROM are those of cc.from in their order, and FROM is Nothing exactly
\* when cc.from is empty.  A from list that names a computed table twice, or
\* one that is not there, would fail the expectation.
C29_ComputedTakenOnce ==
    select # None =>
        LET cc == aq.cc
            computed == {k \in DOMAIN cc.from : cc.from[k].table = "Computed"}
        IN  /\ \A k \in computed : cc.from[k].index + 1 \in DOMAIN cc.computed_tables
            /\ \A k, l \in computed : cc.from[k].index = cc.from[l].index => k = l
            /\ select # Panic
            /\ (select.from = FromNothing) <=> (cc.from = <<>>)
            /\ cc.from # <<>> =>
                   /\ select.from.kind = "TableList"
                   /\ DOMAIN select.from.tables = DOMAIN cc.from
                   /\ \A k \in DOMAIN cc.from :
                          IF k \in computed
                          THEN select.from.tables[k] =
                                   table_for_computed(cc.computed_tables[cc.from[k].index + 1],
                                                      cc.from[k].alias)
                          ELSE select.from.tables[k] = TableOrSubqueryTable(cc.from[k])
            /\ computed # {} =>
                   \A k \in computed :
                       /\ cc_to_select_query(ProjectionOne, WithFrom(cc, cc.from \o <<cc.from[k]>>),
                                             FALSE, None) = Panic
                       /\ cc_to_select_query(
                              ProjectionOne,
                              WithFrom(cc, <<SourceAlias("Computed", Len(cc.computed_tables), "c09")>>),
                              FALSE, None) = Panic

\* A CC with two unions around a pattern was translated.
C29_Witness ==
    /\ select # None /\ select # Panic
    /\ Len(aq.cc.computed_tables) = 2
    /\ Len(select.from.tables) = 3
    /\ select.from.tables[1].kind = "Union" /\ select.from.tables[1].alias = "c00"
    /\ select.from.tables[2].kind = "Table"
    /\ select.from.tables[3].kind = "Union" /\ select.from.tables[3].alias = "c01"
    /\ Len(select.from.tables[3].queries[1].projection.columns) = 2

(***************************************************************************)
(* The Repl of the command line (tools/cli/src/mentat_cli/repl.rs).  A     *)
(* Store is the location it was opened from and the number of the open     *)
(* that made it; whether Store::open succeeds is decided by the file       *)
(* system.                                                                 *)
(***************************************************************************)

\* The Store made by the n-th successful Store::open / Store::open_empty.
Store(location, n) == [location |-> location, n |-> n]

\* Repl::new, when its Store::open("") succeeds.
Repl_new == [path |-> "", store |-> Store("", 0), timer_on |-> FALSE, opened |-> 0]

\* Repl::db_name
db_name(r) == IF r.path = "" THEN "in-memory db" ELSE r.path

\* Repl::open that records the path before the store is opened.
open_path_first(r, path, opens) ==
    IF r.path = "" \/ path # r.path
    THEN IF opens
         THEN [repl |-> [r EXCEPT !.path = path, !.store = Store(path, r.opened + 1),
                                  !.opened = r.opened + 1],
               result |-> "Ok"]
         ELSE [repl |-> [r EXCEPT !.path = path], result |-> "Err"]
    ELSE [repl |-> r, result |-> "Ok"]

\* Repl::open: the Repl after the call and the result; `opens` tells whether
\* Store::open succeeds.
open(r, path, opens) ==
    IF r.path = "" \/ path # r.path
    THEN IF opens
         THEN [repl |-> [r EXCEPT !.path = path, !.store = Store(path, r.opened + 1),
                                  !.opened = r.opened + 1],
               result |-> "Ok"]
         ELSE [repl |-> r, result |-> "Err"]
    ELSE [repl |-> r, result |-> "Ok"]

\* Repl::open_empty: as open, with Store::open_empty.
open_empty(r, path, opens) ==
    IF r.path = "" \/ path # r.path
    THEN IF opens
         THEN [repl |-> [r EXCEPT !.path = path, !.store = Store(path, r.opened + 1),
                                  !.opened = r.opened + 1],
               result |-> "Ok"]
         ELSE [repl |-> r, result |-> "Err"]
    ELSE [repl |-> r, result |-> "Ok"]

\* Repl::close: open(""), its result printed.
close(r, opens) == open(r, "", opens)

\* Bound on the number of stores opened by one Repl.
MaxOpens == 3

Paths == {"", "a.db", "b.db", "c.db"}

repl_frame == <<builder_vars, query_vars, keyword_vars, pattern_vars, find, resolve, rel, cache, db, type_set>>

\* What the last command left behind: the Repl, the command and what the Repl
\* was before it.
Commanded(op, path, r) ==
    [now |-> r.repl,
     last |-> [op |-> op, path |-> path, result |-> r.result, before |-> repl.now,
               db_name |-> db_name(repl.now)]]

Open(path, opens) ==
    /\ repl # None
    /\ repl.now.opened < MaxOpens
    /\ repl' = Commanded("open", path, open(repl.now, path, opens))
    /\ UNCHANGED repl_frame

OpenEmpty(path, opens) ==
    /\ repl # None
    /\ repl.now.opened < MaxOpens
    /\ repl' = Commanded("open_empty", path, open_empty(repl.now, path, opens))
    /\ UNCHANGED repl_frame

Close(opens) ==
    /\ repl # None
    /\ repl.now.opened < MaxOpens
    /\ repl' = Commanded("close", "", close(repl.now, opens))
    /\ UNCHANGED repl_frame

InitRepl ==
    /\ repl = [now |-> Repl_new,
               last |-> [op |-> "new", path |-> "", result |-> "Ok", before |-> Repl_new,
                         db_name |-> db_name(Repl_new)]]
    /\ db = None /\ type_set = None
    /\ find = None /\ resolve = None /\ rel = None /\ cache = None
    /\ NoBuilder /\ NoQuery /\ NoKeyword /\ NoPattern

NextRepl ==
    \/ \E path \in Paths, opens \in BOOLEAN : Open(path, opens)
    \/ \E path \in Paths, opens \in BOOLEAN : OpenEmpty(path, opens)
    \/ \E opens \in BOOLEAN : Close(opens)

SpecRepl == InitRepl /\ [][NextRepl]_vars

\* C30: Repl.path is the location its store was opened from; a failed open
\* leaves path and store as they were; opening the non-empty path that is
\* already open keeps the store; after a successful close the Repl is on a
\* new in-memory store with an empty path.
C30_PathNamesStore ==
    repl # None =>
        LET now == repl.now
            last == repl.last
        IN  /\ now.path = now.store.location
            /\ now.store # last.before.store => (last.result = "Ok" /\ now.path = last.path)
            /\ now.path # last.before.path => now.store # last.before.store
            /\ last.result = "Err" =>
                   now.path = last.before.path /\ now.store = last.before.store
            /\ (last.op \in {"open", "open_empty"} /\ last.path # ""
                    /\ last.path = last.before.path) =>
                   now.store = last.before.store /\ last.result = "Ok"
            /\ (last.op = "close" /\ last.result = "Ok") =>
                   /\ now.path = "" /\ now.store.location = ""
                   /\ now.store # last.before.store
                   /\ db_name(now) = "in-memory db"

\* A file was opened and then closed, the close being the third store opened.
C30_Witness ==
    /\ repl # None
    /\ repl.last.op = "close" /\ repl.last.result = "Ok"
    /\ repl.last.before.path = "a.db"
    /\ repl.now.opened = 3

====
